---- MODULE Spec2Model ----
(***************************************************************************)
(* Model of c-ds-lib: a singly linked list, a stack, a queue and an        *)
(* unbalanced binary search tree over caller-owned payload pointers.       *)
(* Nodes live in one heap of addresses; every library call is one action   *)
(* that runs the whole function, loops included.                           *)
(***************************************************************************)
EXTENDS Integers, Sequences, FiniteSets, TLC

\* ------------------------------------------------------------------ bounds
MaxNodes == 5      \* number of node-sized blocks the heap can hand out
MaxChain == 3      \* blocks a list, stack or queue may hold before malloc fails
MaxDups  == 1      \* duplicate tree inserts made per tree lifetime

\* --------------------------------------------------------------- constants
NULL == 0

DS_OK           == 0
DS_ERR_OOM      == 1
DS_ERR_INVALID  == 2
DS_ERR_NOTFOUND == 3
DS_ERR_NULLARG  == 4

\* The single live handle of each container kind, and the one comparator.
HANDLE  == 1
CMP_INT == 1

Addr == 1..MaxNodes

\* The ints the caller's payload pointers point to: pointer p holds Deref[p].
\* Pointers 2 and 7 (30) and 4 and 8 (20) are different objects of equal value.
Deref == <<50, 30, 70, 20, 40, 10, 30, 20>>

\* Payload pointers the caller stores in the tree, in a stack or queue, the
\* pointers it uses as search keys of the list, those it stores in the list
\* (two of them, 4 and 8, of equal value), and those of the tree scenario.
TreePtrs     == {1, 2, 3, 4, 7}
ListPtrs     == {6, 4, 2}
ListKeys     == {8, 7}
ListStored   == ListPtrs \cup {8}
ScenarioPtrs == {1, 2, 3, 4, 5}

Handles == {NULL, HANDLE}
Cmps    == {NULL, CMP_INT}

Kinds == {"list", "stack", "queue", "tree"}

\* ------------------------------------------------------------------- state
VARIABLES
    allocated,   \* node addresses handed out by ds_alloc and not yet ds_free'd
    mem,         \* node fields: data, next (list/stack/queue), left, right (tree)
    list,        \* struct ds_list:  live, head, tail, size
    stack,       \* struct ds_stack: live, top, size
    queue,       \* struct ds_queue: live, front, rear, size
    tree,        \* struct ds_tree:  live, root, size
    op,          \* the last call: name, arguments, code path taken
    ret,         \* the value the last call returned
    destructed,  \* payloads handed to free_data by the last free call, in order
    cnt,         \* per kind: ok insertions minus successful removals, and dups
    err,         \* some call since construction returned an error status
    present,     \* key values inserted into the tree and not removed since
    fifo,        \* push_back/pop_front run on the list: phase, pushed, popped
    lifo,        \* push/pop run on the stack: phase, pushed, popped
    pending,     \* payloads enqueued on the queue and not dequeued, oldest first
    script,      \* position in the tree end-to-end scenario, -1 when left
    lscript      \* position in the list end-to-end scenario, -1 when left

vars == <<allocated, mem, list, stack, queue, tree, op, ret, destructed,
          cnt, err, present, fifo, lifo, pending, script, lscript>>

\* ----------------------------------------------------------------- helpers
Min(S) == CHOOSE x \in S : \A y \in S : x <= y

FreshNode == [data |-> NULL, next |-> NULL, left |-> NULL, right |-> NULL]

\* Outcomes of ds_alloc for a node: malloc fails, or returns a block that is
\* not currently allocated.  The library compares node addresses only for
\* equality, so the lowest unallocated block stands for any of them.
\* cap is the number of blocks the heap of the run holds.
ds_alloc(cap) ==
    IF Cardinality(allocated) >= cap \/ Addr \ allocated = {} THEN {NULL}
    ELSE {NULL, Min(Addr \ allocated)}

\* ds_free of node p in heap m with allocation set al.
ds_free_mem(m, p) == [m EXCEPT ![p] = FreshNode]
ds_free_set(al, p) == al \ {p}

\* int cmp_int(const void *a, const void *b) { return *(int*)a - *(int*)b; }
cmp_int(a, b) == Deref[a] - Deref[b]

\* A call through the caller's comparator pointer c (non-null: cmp_int).
Invoke(c, a, b) == cmp_int(a, b)

\* Result of one library call: return value, code path, container struct,
\* heap and allocation set after the call.
Res(r, p, c, m, al) == [ret |-> r, path |-> p, c |-> c, mem |-> m, allocated |-> al]

\* The record of a call: function, arguments, whether the environment's
\* ds_alloc fails during it, and the code path the call took.
Call(n, h, d, c, af, p) ==
    [name |-> n, h |-> h, data |-> d, cmp |-> c, afail |-> af, path |-> p]

\* --------------------------------------------------------------- traversal
RECURSIVE Chain(_, _)
\* Payload-free walk along next links from node n: the node addresses in order.
Chain(m, n) == IF n = NULL THEN <<>> ELSE <<n>> \o Chain(m, m[n].next)

RECURSIVE count_nodes(_, _)
count_nodes(m, node) ==
    IF node = NULL THEN 0
    ELSE 1 + count_nodes(m, m[node].left) + count_nodes(m, m[node].right)

RECURSIVE InOrderNodes(_, _)
\* Node addresses of the subtree at node in left, self, right order.
InOrderNodes(m, node) ==
    IF node = NULL THEN <<>>
    ELSE InOrderNodes(m, m[node].left) \o <<node>> \o InOrderNodes(m, m[node].right)

Payloads(m, nodes) == [i \in 1..Len(nodes) |-> m[nodes[i]].data]
Values(ps) == [i \in 1..Len(ps) |-> Deref[ps[i]]]

ListOrder  == Payloads(mem, Chain(mem, list.head))
StackOrder == Payloads(mem, Chain(mem, stack.top))
QueueOrder == Payloads(mem, Chain(mem, queue.front))
TreeOrder  == Payloads(mem, InOrderNodes(mem, tree.root))

\* -------------------------------------------------------------------- list
\* ds_list_create
ds_list_create(a) ==
    IF a = NULL THEN [live |-> FALSE, head |-> NULL, tail |-> NULL, size |-> 0]
    ELSE [live |-> TRUE, head |-> NULL, tail |-> NULL, size |-> 0]

\* ds_list_push_front without the link from the new node to the old head.
ds_list_push_front_nolink(L, d, a) ==
    IF L = NULL \/ d = NULL THEN Res(DS_ERR_NULLARG, "nullarg", list, mem, allocated)
    ELSE IF a = NULL THEN Res(DS_ERR_OOM, "oom", list, mem, allocated)
    ELSE Res(DS_OK, "ok",
             [list EXCEPT !.head = a,
                          !.tail = IF list.tail = NULL THEN a ELSE list.tail,
                          !.size = list.size + 1],
             [mem EXCEPT ![a] = [FreshNode EXCEPT !.data = d, !.next = NULL]],
             allocated \cup {a})

\* ds_list_push_front counting the element before the allocation is checked.
ds_list_push_front_early(L, d, a) ==
    IF L = NULL \/ d = NULL THEN Res(DS_ERR_NULLARG, "nullarg", list, mem, allocated)
    ELSE IF a = NULL
    THEN Res(DS_ERR_OOM, "oom", [list EXCEPT !.size = list.size + 1], mem, allocated)
    ELSE Res(DS_OK, "ok",
             [list EXCEPT !.head = a,
                          !.tail = IF list.tail = NULL THEN a ELSE list.tail,
                          !.size = list.size + 1],
             [mem EXCEPT ![a] = [FreshNode EXCEPT !.data = d, !.next = list.head]],
             allocated \cup {a})

ds_list_push_front(L, d, a) ==
    IF L = NULL \/ d = NULL THEN Res(DS_ERR_NULLARG, "nullarg", list, mem, allocated)
    ELSE IF a = NULL THEN Res(DS_ERR_OOM, "oom", list, mem, allocated)
    ELSE Res(DS_OK, "ok",
             [list EXCEPT !.head = a,
                          !.tail = IF list.tail = NULL THEN a ELSE list.tail,
                          !.size = list.size + 1],
             [mem EXCEPT ![a] = [FreshNode EXCEPT !.data = d, !.next = list.head]],
             allocated \cup {a})

\* ds_list_push_back whose append path leaves L->tail on the old last node.
ds_list_push_back_notail(L, d, a) ==
    IF L = NULL \/ d = NULL THEN Res(DS_ERR_NULLARG, "nullarg", list, mem, allocated)
    ELSE IF a = NULL THEN Res(DS_ERR_OOM, "oom", list, mem, allocated)
    ELSE LET m1 == [mem EXCEPT ![a] = [FreshNode EXCEPT !.data = d, !.next = NULL]]
         IN IF list.tail = NULL
            THEN Res(DS_OK, "first",
                     [list EXCEPT !.head = a, !.tail = a, !.size = list.size + 1],
                     m1, allocated \cup {a})
            ELSE Res(DS_OK, "append",
                     [list EXCEPT !.size = list.size + 1],
                     [m1 EXCEPT ![list.tail].next = a], allocated \cup {a})

\* ds_list_push_back linking the appended node back to L->head, which makes
\* the chain circular.
ds_list_push_back_circular(L, d, a) ==
    IF L = NULL \/ d = NULL THEN Res(DS_ERR_NULLARG, "nullarg", list, mem, allocated)
    ELSE IF a = NULL THEN Res(DS_ERR_OOM, "oom", list, mem, allocated)
    ELSE LET m1 == [mem EXCEPT ![a] = [FreshNode EXCEPT !.data = d, !.next = list.head]]
         IN IF list.tail = NULL
            THEN Res(DS_OK, "first",
                     [list EXCEPT !.head = a, !.tail = a, !.size = list.size + 1],
                     m1, allocated \cup {a})
            ELSE Res(DS_OK, "append",
                     [list EXCEPT !.tail = a, !.size = list.size + 1],
                     [m1 EXCEPT ![list.tail].next = a], allocated \cup {a})

ds_list_push_back(L, d, a) ==
    IF L = NULL \/ d = NULL THEN Res(DS_ERR_NULLARG, "nullarg", list, mem, allocated)
    ELSE IF a = NULL THEN Res(DS_ERR_OOM, "oom", list, mem, allocated)
    ELSE LET m1 == [mem EXCEPT ![a] = [FreshNode EXCEPT !.data = d, !.next = NULL]]
         IN IF list.tail = NULL
            THEN Res(DS_OK, "first",
                     [list EXCEPT !.head = a, !.tail = a, !.size = list.size + 1],
                     m1, allocated \cup {a})
            ELSE Res(DS_OK, "append",
                     [list EXCEPT !.tail = a, !.size = list.size + 1],
                     [m1 EXCEPT ![list.tail].next = a], allocated \cup {a})

\* ds_list_pop_front without the decrement of size.
ds_list_pop_front_keepsize(L) ==
    IF L = NULL THEN Res(NULL, "nullarg", list, mem, allocated)
    ELSE IF list.head = NULL THEN Res(NULL, "empty", list, mem, allocated)
    ELSE LET old_head == list.head
             d == mem[old_head].data
             nh == mem[old_head].next
         IN Res(d, "ok",
                [list EXCEPT !.head = nh,
                             !.tail = IF nh = NULL THEN NULL ELSE list.tail],
                ds_free_mem(mem, old_head), ds_free_set(allocated, old_head))

ds_list_pop_front(L) ==
    IF L = NULL THEN Res(NULL, "nullarg", list, mem, allocated)
    ELSE IF list.head = NULL THEN Res(NULL, "empty", list, mem, allocated)
    ELSE LET old_head == list.head
             d == mem[old_head].data
             nh == mem[old_head].next
         IN Res(d, "ok",
                [list EXCEPT !.head = nh,
                             !.tail = IF nh = NULL THEN NULL ELSE list.tail,
                             !.size = list.size - 1],
                ds_free_mem(mem, old_head), ds_free_set(allocated, old_head))

RECURSIVE ListScan_last(_, _, _, _)
\* The scan loop running on after a match: the last node whose payload
\* compares equal to target, with its predecessor.
ListScan_last(current, previous, target, c) ==
    IF current = NULL THEN [current |-> NULL, previous |-> previous]
    ELSE LET rest == ListScan_last(mem[current].next, current, target, c)
         IN IF rest.current # NULL THEN rest
            ELSE IF Invoke(c, mem[current].data, target) = 0
                 THEN [current |-> current, previous |-> previous]
                 ELSE rest

RECURSIVE ListScan(_, _, _, _)
\* The scan loop of ds_list_remove / ds_list_find: the first node from current
\* whose payload compares equal to target, with its predecessor.
ListScan(current, previous, target, c) ==
    IF current = NULL THEN [current |-> NULL, previous |-> previous]
    ELSE IF Invoke(c, mem[current].data, target) = 0
         THEN [current |-> current, previous |-> previous]
         ELSE ListScan(mem[current].next, current, target, c)

\* ds_list_remove leaving L->tail on the node it removed from the end.
ds_list_remove_keeptail(L, d, c) ==
    IF L = NULL \/ d = NULL \/ c = NULL
    THEN Res(DS_ERR_NULLARG, "nullarg", list, mem, allocated)
    ELSE LET s == ListScan(list.head, NULL, d, c)
             current == s.current
             previous == s.previous
         IN IF current = NULL THEN Res(DS_ERR_NOTFOUND, "notfound", list, mem, allocated)
            ELSE IF previous = NULL
            THEN LET nh == mem[current].next
                 IN Res(DS_OK, "head",
                        [list EXCEPT !.head = nh,
                                     !.tail = IF nh = NULL THEN NULL ELSE list.tail,
                                     !.size = list.size - 1],
                        ds_free_mem(mem, current), ds_free_set(allocated, current))
            ELSE Res(DS_OK, IF current = list.tail THEN "tail" ELSE "middle",
                     [list EXCEPT !.size = list.size - 1],
                     ds_free_mem([mem EXCEPT ![previous].next = mem[current].next],
                                 current),
                     ds_free_set(allocated, current))

\* ds_list_remove answering a null comparator with DS_ERR_INVALID.
ds_list_remove_invalid(L, d, c) ==
    IF L = NULL \/ d = NULL
    THEN Res(DS_ERR_NULLARG, "nullarg", list, mem, allocated)
    ELSE IF c = NULL THEN Res(DS_ERR_INVALID, "nullarg", list, mem, allocated)
    ELSE LET s == ListScan(list.head, NULL, d, c)
             current == s.current
             previous == s.previous
         IN IF current = NULL THEN Res(DS_ERR_NOTFOUND, "notfound", list, mem, allocated)
            ELSE IF previous = NULL
            THEN LET nh == mem[current].next
                 IN Res(DS_OK, "head",
                        [list EXCEPT !.head = nh,
                                     !.tail = IF nh = NULL THEN NULL ELSE list.tail,
                                     !.size = list.size - 1],
                        ds_free_mem(mem, current), ds_free_set(allocated, current))
            ELSE Res(DS_OK, IF current = list.tail THEN "tail" ELSE "middle",
                     [list EXCEPT !.tail = IF current = list.tail THEN previous
                                           ELSE list.tail,
                                  !.size = list.size - 1],
                     ds_free_mem([mem EXCEPT ![previous].next = mem[current].next],
                                 current),
                     ds_free_set(allocated, current))

ds_list_remove(L, d, c) ==
    IF L = NULL \/ d = NULL \/ c = NULL
    THEN Res(DS_ERR_NULLARG, "nullarg", list, mem, allocated)
    ELSE LET s == ListScan(list.head, NULL, d, c)
             current == s.current
             previous == s.previous
         IN IF current = NULL THEN Res(DS_ERR_NOTFOUND, "notfound", list, mem, allocated)
            ELSE IF previous = NULL
            THEN LET nh == mem[current].next
                 IN Res(DS_OK, "head",
                        [list EXCEPT !.head = nh,
                                     !.tail = IF nh = NULL THEN NULL ELSE list.tail,
                                     !.size = list.size - 1],
                        ds_free_mem(mem, current), ds_free_set(allocated, current))
            ELSE Res(DS_OK, IF current = list.tail THEN "tail" ELSE "middle",
                     [list EXCEPT !.tail = IF current = list.tail THEN previous
                                           ELSE list.tail,
                                  !.size = list.size - 1],
                     ds_free_mem([mem EXCEPT ![previous].next = mem[current].next],
                                 current),
                     ds_free_set(allocated, current))

\* ds_list_find handing back the caller's target instead of the stored payload.
ds_list_find_key(L, target, c) ==
    IF L = NULL \/ target = NULL \/ c = NULL
    THEN Res(NULL, "nullarg", list, mem, allocated)
    ELSE LET s == ListScan(list.head, NULL, target, c)
         IN IF s.current = NULL THEN Res(NULL, "notfound", list, mem, allocated)
            ELSE Res(target, "found", list, mem, allocated)

ds_list_find(L, target, c) ==
    IF L = NULL \/ target = NULL \/ c = NULL
    THEN Res(NULL, "nullarg", list, mem, allocated)
    ELSE LET s == ListScan(list.head, NULL, target, c)
         IN IF s.current = NULL THEN Res(NULL, "notfound", list, mem, allocated)
            ELSE Res(mem[s.current].data, "found", list, mem, allocated)

ds_list_size(L) == IF L = NULL THEN 0 ELSE list.size

RECURSIVE FreeChain(_, _, _)
\* The teardown loop shared by ds_list_free, ds_stack_free and ds_queue_free:
\* heap, allocation set and destructor calls after walking from current.
FreeChain(st, current, free_data) ==
    IF current = NULL THEN st
    ELSE LET nx == st.mem[current].next
             d == st.mem[current].data
         IN FreeChain([mem |-> ds_free_mem(st.mem, current),
                       allocated |-> ds_free_set(st.allocated, current),
                       calls |-> IF free_data /\ d # NULL
                                 THEN Append(st.calls, d) ELSE st.calls],
                      nx, free_data)

\* ds_list_free releasing every block obtained from ds_alloc, not only the
\* nodes of the list's own chain.
ds_list_free_heap(L, free_data) ==
    IF L = NULL THEN [ret |-> DS_ERR_NULLARG, c |-> list, mem |-> mem,
                      allocated |-> allocated, calls |-> <<>>]
    ELSE LET st == FreeChain([mem |-> mem, allocated |-> allocated, calls |-> <<>>],
                             list.head, free_data)
         IN [ret |-> DS_OK,
             c |-> [live |-> FALSE, head |-> NULL, tail |-> NULL, size |-> 0],
             mem |-> [x \in Addr |-> FreshNode], allocated |-> {},
             calls |-> st.calls]

ds_list_free(L, free_data) ==
    IF L = NULL THEN [ret |-> DS_ERR_NULLARG, c |-> list, mem |-> mem,
                      allocated |-> allocated, calls |-> <<>>]
    ELSE LET st == FreeChain([mem |-> mem, allocated |-> allocated, calls |-> <<>>],
                             list.head, free_data)
         IN [ret |-> DS_OK,
             c |-> [live |-> FALSE, head |-> NULL, tail |-> NULL, size |-> 0],
             mem |-> st.mem, allocated |-> st.allocated, calls |-> st.calls]

\* ------------------------------------------------------------------- stack
ds_stack_create(a) ==
    IF a = NULL THEN [live |-> FALSE, top |-> NULL, size |-> 0]
    ELSE [live |-> TRUE, top |-> NULL, size |-> 0]

\* ds_stack_push setting S->top before linking: the node's next is itself.
ds_stack_push_selfloop(S, d, a) ==
    IF S = NULL \/ d = NULL THEN Res(DS_ERR_NULLARG, "nullarg", stack, mem, allocated)
    ELSE IF a = NULL THEN Res(DS_ERR_OOM, "oom", stack, mem, allocated)
    ELSE Res(DS_OK, "ok",
             [stack EXCEPT !.top = a, !.size = stack.size + 1],
             [mem EXCEPT ![a] = [FreshNode EXCEPT !.data = d, !.next = a]],
             allocated \cup {a})

\* ds_stack_push without the increment of size.
ds_stack_push_keepsize(S, d, a) ==
    IF S = NULL \/ d = NULL THEN Res(DS_ERR_NULLARG, "nullarg", stack, mem, allocated)
    ELSE IF a = NULL THEN Res(DS_ERR_OOM, "oom", stack, mem, allocated)
    ELSE Res(DS_OK, "ok",
             [stack EXCEPT !.top = a],
             [mem EXCEPT ![a] = [FreshNode EXCEPT !.data = d, !.next = stack.top]],
             allocated \cup {a})

ds_stack_push(S, d, a) ==
    IF S = NULL \/ d = NULL THEN Res(DS_ERR_NULLARG, "nullarg", stack, mem, allocated)
    ELSE IF a = NULL THEN Res(DS_ERR_OOM, "oom", stack, mem, allocated)
    ELSE Res(DS_OK, "ok",
             [stack EXCEPT !.top = a, !.size = stack.size + 1],
             [mem EXCEPT ![a] = [FreshNode EXCEPT !.data = d, !.next = stack.top]],
             allocated \cup {a})

\* ds_stack_pop reading the payload after S->top has moved to the next node.
ds_stack_pop_stale(S) ==
    IF S = NULL THEN Res(NULL, "nullarg", stack, mem, allocated)
    ELSE IF stack.top = NULL THEN Res(NULL, "empty", stack, mem, allocated)
    ELSE LET old_top == stack.top
             nt == mem[old_top].next
         IN Res(IF nt = NULL THEN mem[old_top].data ELSE mem[nt].data, "ok",
                [stack EXCEPT !.top = nt, !.size = stack.size - 1],
                ds_free_mem(mem, old_top), ds_free_set(allocated, old_top))

ds_stack_pop(S) ==
    IF S = NULL THEN Res(NULL, "nullarg", stack, mem, allocated)
    ELSE IF stack.top = NULL THEN Res(NULL, "empty", stack, mem, allocated)
    ELSE LET old_top == stack.top
         IN Res(mem[old_top].data, "ok",
                [stack EXCEPT !.top = mem[old_top].next, !.size = stack.size - 1],
                ds_free_mem(mem, old_top), ds_free_set(allocated, old_top))

\* ds_stack_peek reading the node below the top when there is one.
ds_stack_peek_below(S) ==
    IF S = NULL THEN NULL
    ELSE IF stack.top = NULL THEN NULL
    ELSE IF mem[stack.top].next = NULL THEN mem[stack.top].data
    ELSE mem[mem[stack.top].next].data

ds_stack_peek(S) ==
    IF S = NULL THEN NULL
    ELSE IF stack.top = NULL THEN NULL
    ELSE mem[stack.top].data

ds_stack_is_empty(S) ==
    IF S = NULL THEN 1 ELSE IF stack.top = NULL THEN 1 ELSE 0

ds_stack_size(S) == IF S = NULL THEN 0 ELSE stack.size

\* ds_stack_free without the test of S against NULL.
ds_stack_free_nonull(S, free_data) ==
    LET st == FreeChain([mem |-> mem, allocated |-> allocated, calls |-> <<>>],
                        stack.top, free_data)
    IN [ret |-> DS_OK, c |-> [live |-> FALSE, top |-> NULL, size |-> 0],
        mem |-> st.mem, allocated |-> st.allocated, calls |-> st.calls]

ds_stack_free(S, free_data) ==
    IF S = NULL THEN [ret |-> DS_ERR_NULLARG, c |-> stack, mem |-> mem,
                      allocated |-> allocated, calls |-> <<>>]
    ELSE LET st == FreeChain([mem |-> mem, allocated |-> allocated, calls |-> <<>>],
                             stack.top, free_data)
         IN [ret |-> DS_OK, c |-> [live |-> FALSE, top |-> NULL, size |-> 0],
             mem |-> st.mem, allocated |-> st.allocated, calls |-> st.calls]

\* ------------------------------------------------------------------- queue
ds_queue_create(a) ==
    IF a = NULL THEN [live |-> FALSE, front |-> NULL, rear |-> NULL, size |-> 0]
    ELSE [live |-> TRUE, front |-> NULL, rear |-> NULL, size |-> 0]

\* ds_queue_enqueue linking the new node before Q->front.
ds_queue_enqueue_front(Q, d, a) ==
    IF Q = NULL \/ d = NULL THEN Res(DS_ERR_NULLARG, "nullarg", queue, mem, allocated)
    ELSE IF a = NULL THEN Res(DS_ERR_OOM, "oom", queue, mem, allocated)
    ELSE Res(DS_OK, IF queue.rear = NULL THEN "first" ELSE "append",
             [queue EXCEPT !.front = a,
                           !.rear = IF queue.rear = NULL THEN a ELSE queue.rear,
                           !.size = queue.size + 1],
             [mem EXCEPT ![a] = [FreshNode EXCEPT !.data = d, !.next = queue.front]],
             allocated \cup {a})

\* ds_queue_enqueue without the test of the payload against NULL.
ds_queue_enqueue_nulldata(Q, d, a) ==
    IF Q = NULL THEN Res(DS_ERR_NULLARG, "nullarg", queue, mem, allocated)
    ELSE IF a = NULL THEN Res(DS_ERR_OOM, "oom", queue, mem, allocated)
    ELSE LET m1 == [mem EXCEPT ![a] = [FreshNode EXCEPT !.data = d, !.next = NULL]]
         IN IF queue.rear = NULL
            THEN Res(DS_OK, "first",
                     [queue EXCEPT !.front = a, !.rear = a, !.size = queue.size + 1],
                     m1, allocated \cup {a})
            ELSE Res(DS_OK, "append",
                     [queue EXCEPT !.rear = a, !.size = queue.size + 1],
                     [m1 EXCEPT ![queue.rear].next = a], allocated \cup {a})

ds_queue_enqueue(Q, d, a) ==
    IF Q = NULL \/ d = NULL THEN Res(DS_ERR_NULLARG, "nullarg", queue, mem, allocated)
    ELSE IF a = NULL THEN Res(DS_ERR_OOM, "oom", queue, mem, allocated)
    ELSE LET m1 == [mem EXCEPT ![a] = [FreshNode EXCEPT !.data = d, !.next = NULL]]
         IN IF queue.rear = NULL
            THEN Res(DS_OK, "first",
                     [queue EXCEPT !.front = a, !.rear = a, !.size = queue.size + 1],
                     m1, allocated \cup {a})
            ELSE Res(DS_OK, "append",
                     [queue EXCEPT !.rear = a, !.size = queue.size + 1],
                     [m1 EXCEPT ![queue.rear].next = a], allocated \cup {a})

\* ds_queue_dequeue leaving Q->rear as it was when the queue becomes empty.
ds_queue_dequeue_keeprear(Q) ==
    IF Q = NULL THEN Res(NULL, "nullarg", queue, mem, allocated)
    ELSE IF queue.front = NULL THEN Res(NULL, "empty", queue, mem, allocated)
    ELSE LET old_front == queue.front
             nf == mem[old_front].next
         IN Res(mem[old_front].data, "ok",
                [queue EXCEPT !.front = nf, !.size = queue.size - 1],
                ds_free_mem(mem, old_front), ds_free_set(allocated, old_front))

\* ds_queue_dequeue without the decrement of size.
ds_queue_dequeue_keepsize(Q) ==
    IF Q = NULL THEN Res(NULL, "nullarg", queue, mem, allocated)
    ELSE IF queue.front = NULL THEN Res(NULL, "empty", queue, mem, allocated)
    ELSE LET old_front == queue.front
             nf == mem[old_front].next
         IN Res(mem[old_front].data, "ok",
                [queue EXCEPT !.front = nf,
                              !.rear = IF nf = NULL THEN NULL ELSE queue.rear],
                ds_free_mem(mem, old_front), ds_free_set(allocated, old_front))

ds_queue_dequeue(Q) ==
    IF Q = NULL THEN Res(NULL, "nullarg", queue, mem, allocated)
    ELSE IF queue.front = NULL THEN Res(NULL, "empty", queue, mem, allocated)
    ELSE LET old_front == queue.front
             nf == mem[old_front].next
         IN Res(mem[old_front].data, "ok",
                [queue EXCEPT !.front = nf,
                              !.rear = IF nf = NULL THEN NULL ELSE queue.rear,
                              !.size = queue.size - 1],
                ds_free_mem(mem, old_front), ds_free_set(allocated, old_front))

\* ds_queue_peek without the test of Q against NULL.
ds_queue_peek_nonull(Q) ==
    IF queue.front = NULL THEN NULL
    ELSE mem[queue.front].data

ds_queue_peek(Q) ==
    IF Q = NULL THEN NULL
    ELSE IF queue.front = NULL THEN NULL
    ELSE mem[queue.front].data

\* ds_queue_is_empty answering 0 for a null queue.
ds_queue_is_empty_null0(Q) ==
    IF Q = NULL THEN 0 ELSE IF queue.front = NULL THEN 1 ELSE 0

ds_queue_is_empty(Q) ==
    IF Q = NULL THEN 1 ELSE IF queue.front = NULL THEN 1 ELSE 0

ds_queue_size(Q) == IF Q = NULL THEN 0 ELSE queue.size

ds_queue_free(Q, free_data) ==
    IF Q = NULL THEN [ret |-> DS_ERR_NULLARG, c |-> queue, mem |-> mem,
                      allocated |-> allocated, calls |-> <<>>]
    ELSE LET st == FreeChain([mem |-> mem, allocated |-> allocated, calls |-> <<>>],
                             queue.front, free_data)
         IN [ret |-> DS_OK,
             c |-> [live |-> FALSE, front |-> NULL, rear |-> NULL, size |-> 0],
             mem |-> st.mem, allocated |-> st.allocated, calls |-> st.calls]

\* -------------------------------------------------------------------- tree
ds_tree_create(a) ==
    IF a = NULL THEN [live |-> FALSE, root |-> NULL, size |-> 0]
    ELSE [live |-> TRUE, root |-> NULL, size |-> 0]

RECURSIVE InsertDescend_nodup(_, _, _, _, _)
\* The descent loop without the equal-key case: an equal key goes right.
InsertDescend_nodup(m, current, parent, d, c) ==
    IF current = NULL THEN [dup |-> FALSE, parent |-> parent]
    ELSE LET comparison == Invoke(c, d, m[current].data)
         IN IF comparison < 0
            THEN InsertDescend_nodup(m, m[current].left, current, d, c)
            ELSE InsertDescend_nodup(m, m[current].right, current, d, c)

RECURSIVE InsertDescend(_, _, _, _, _)
\* The descent loop of ds_tree_insert in heap m: whether an equal key was met,
\* and the last node visited.
InsertDescend(m, current, parent, d, c) ==
    IF current = NULL THEN [dup |-> FALSE, parent |-> parent]
    ELSE LET comparison == Invoke(c, d, m[current].data)
         IN IF comparison < 0 THEN InsertDescend(m, m[current].left, current, d, c)
            ELSE IF comparison > 0 THEN InsertDescend(m, m[current].right, current, d, c)
            ELSE [dup |-> TRUE, parent |-> current]

\* ds_tree_insert with the link step's comparison inverted.
InsertLink_swapped(m, parent, d, c, a) ==
    IF Invoke(c, d, m[parent].data) < 0
    THEN [path |-> "left", mem |-> [m EXCEPT ![parent].right = a]]
    ELSE [path |-> "right", mem |-> [m EXCEPT ![parent].left = a]]

\* The link step of ds_tree_insert: node a becomes parent's left or right child.
InsertLink(m, parent, d, c, a) ==
    IF Invoke(c, d, m[parent].data) < 0
    THEN [path |-> "left", mem |-> [m EXCEPT ![parent].left = a]]
    ELSE [path |-> "right", mem |-> [m EXCEPT ![parent].right = a]]

\* ds_tree_insert allocating and filling its node before the arguments are
\* tested, and returning on a null argument without releasing it.
ds_tree_insert_allocfirst(T, d, c, a) ==
    IF T = NULL \/ d = NULL \/ c = NULL
    THEN Res(DS_ERR_NULLARG, "nullarg", tree,
             IF a = NULL THEN mem ELSE [mem EXCEPT ![a] = [FreshNode EXCEPT !.data = d]],
             IF a = NULL THEN allocated ELSE allocated \cup {a})
    ELSE IF a = NULL THEN Res(DS_ERR_OOM, "oom", tree, mem, allocated)
    ELSE LET m1 == [mem EXCEPT ![a] = [FreshNode EXCEPT !.data = d]]
             al1 == allocated \cup {a}
         IN IF tree.root = NULL
            THEN Res(DS_OK, "root",
                     [tree EXCEPT !.root = a, !.size = tree.size + 1], m1, al1)
            ELSE LET w == InsertDescend(m1, tree.root, NULL, d, c)
                 IN IF w.dup
                    THEN Res(DS_OK, "dup", tree, ds_free_mem(m1, a), ds_free_set(al1, a))
                    ELSE LET k == InsertLink(m1, w.parent, d, c, a)
                         IN Res(DS_OK, k.path, [tree EXCEPT !.size = tree.size + 1],
                                k.mem, al1)

\* ds_tree_insert keeping the node it allocated when the key is already
\* stored: the duplicate path returns without ds_free.
ds_tree_insert_dupleak(T, d, c, a) ==
    IF T = NULL \/ d = NULL \/ c = NULL
    THEN Res(DS_ERR_NULLARG, "nullarg", tree, mem, allocated)
    ELSE IF a = NULL THEN Res(DS_ERR_OOM, "oom", tree, mem, allocated)
    ELSE LET m1 == [mem EXCEPT ![a] = [FreshNode EXCEPT !.data = d]]
             al1 == allocated \cup {a}
         IN IF tree.root = NULL
            THEN Res(DS_OK, "root",
                     [tree EXCEPT !.root = a, !.size = tree.size + 1], m1, al1)
            ELSE LET w == InsertDescend(m1, tree.root, NULL, d, c)
                 IN IF w.dup
                    THEN Res(DS_OK, "dup", tree, m1, al1)
                    ELSE LET k == InsertLink(m1, w.parent, d, c, a)
                         IN Res(DS_OK, k.path, [tree EXCEPT !.size = tree.size + 1],
                                k.mem, al1)

\* ds_tree_insert storing the offered payload reference in the node that
\* holds the equal key before it returns on the duplicate path.
ds_tree_insert_dupreplace(T, d, c, a) ==
    IF T = NULL \/ d = NULL \/ c = NULL
    THEN Res(DS_ERR_NULLARG, "nullarg", tree, mem, allocated)
    ELSE IF a = NULL THEN Res(DS_ERR_OOM, "oom", tree, mem, allocated)
    ELSE LET m1 == [mem EXCEPT ![a] = [FreshNode EXCEPT !.data = d]]
             al1 == allocated \cup {a}
         IN IF tree.root = NULL
            THEN Res(DS_OK, "root",
                     [tree EXCEPT !.root = a, !.size = tree.size + 1], m1, al1)
            ELSE LET w == InsertDescend(m1, tree.root, NULL, d, c)
                 IN IF w.dup
                    THEN Res(DS_OK, "dup", tree,
                             [ds_free_mem(m1, a) EXCEPT ![w.parent].data = d],
                             ds_free_set(al1, a))
                    ELSE LET k == InsertLink(m1, w.parent, d, c, a)
                         IN Res(DS_OK, k.path, [tree EXCEPT !.size = tree.size + 1],
                                k.mem, al1)

ds_tree_insert(T, d, c, a) ==
    IF T = NULL \/ d = NULL \/ c = NULL
    THEN Res(DS_ERR_NULLARG, "nullarg", tree, mem, allocated)
    ELSE IF a = NULL THEN Res(DS_ERR_OOM, "oom", tree, mem, allocated)
    ELSE LET m1 == [mem EXCEPT ![a] = [FreshNode EXCEPT !.data = d]]
             al1 == allocated \cup {a}
         IN IF tree.root = NULL
            THEN Res(DS_OK, "root",
                     [tree EXCEPT !.root = a, !.size = tree.size + 1], m1, al1)
            ELSE LET w == InsertDescend(m1, tree.root, NULL, d, c)
                 IN IF w.dup
                    THEN Res(DS_OK, "dup", tree, ds_free_mem(m1, a), ds_free_set(al1, a))
                    ELSE LET k == InsertLink(m1, w.parent, d, c, a)
                         IN Res(DS_OK, k.path, [tree EXCEPT !.size = tree.size + 1],
                                k.mem, al1)

RECURSIVE FindDescend_inverted(_, _, _)
\* The descent loop of ds_tree_find with the two directions exchanged.
FindDescend_inverted(current, target, c) ==
    IF current = NULL THEN NULL
    ELSE LET comparison == Invoke(c, target, mem[current].data)
         IN IF comparison < 0 THEN FindDescend_inverted(mem[current].right, target, c)
            ELSE IF comparison > 0
            THEN FindDescend_inverted(mem[current].left, target, c)
            ELSE current

RECURSIVE FindDescend(_, _, _)
\* The descent loop of ds_tree_find: the node holding an equal key, or NULL.
FindDescend(current, target, c) ==
    IF current = NULL THEN NULL
    ELSE LET comparison == Invoke(c, target, mem[current].data)
         IN IF comparison < 0 THEN FindDescend(mem[current].left, target, c)
            ELSE IF comparison > 0 THEN FindDescend(mem[current].right, target, c)
            ELSE current

ds_tree_find(T, target, c) ==
    IF T = NULL \/ target = NULL \/ c = NULL
    THEN Res(NULL, "nullarg", tree, mem, allocated)
    ELSE LET current == FindDescend(tree.root, target, c)
         IN IF current = NULL THEN Res(NULL, "notfound", tree, mem, allocated)
            ELSE Res(mem[current].data, "found", tree, mem, allocated)

RECURSIVE RemoveDescend(_, _, _, _)
\* The search loop of ds_tree_remove: the node to remove and its parent.
RemoveDescend(current, parent, target, c) ==
    IF current = NULL THEN [current |-> NULL, parent |-> parent]
    ELSE LET comparison == Invoke(c, target, mem[current].data)
         IN IF comparison < 0 THEN RemoveDescend(mem[current].left, current, target, c)
            ELSE IF comparison > 0
            THEN RemoveDescend(mem[current].right, current, target, c)
            ELSE [current |-> current, parent |-> parent]

RECURSIVE SuccessorWalk_right(_, _)
\* The successor loop following right links instead of left links.
SuccessorWalk_right(successor, successor_parent) ==
    IF mem[successor].right # NULL
    THEN SuccessorWalk_right(mem[successor].right, successor)
    ELSE [successor |-> successor, successor_parent |-> successor_parent]

RECURSIVE SuccessorWalk(_, _)
\* The successor loop of ds_tree_remove: leftmost node from successor, and
\* its parent.
SuccessorWalk(successor, successor_parent) ==
    IF mem[successor].left # NULL
    THEN SuccessorWalk(mem[successor].left, successor)
    ELSE [successor |-> successor, successor_parent |-> successor_parent]

\* Cases 1 and 2 always writing the parent's left slot.
RemoveSplice_left(parent, current, child, p) ==
    LET t1 == IF parent = NULL THEN [tree EXCEPT !.root = child] ELSE tree
        m1 == IF parent = NULL THEN mem
              ELSE [mem EXCEPT ![parent].left = child]
    IN Res(DS_OK, p, [t1 EXCEPT !.size = tree.size - 1],
           ds_free_mem(m1, current), ds_free_set(allocated, current))

\* Cases 1 and 2 of ds_tree_remove: the slot that pointed to current (the root
\* or a parent's left or right) takes child; current is released.
RemoveSplice(parent, current, child, p) ==
    LET t1 == IF parent = NULL THEN [tree EXCEPT !.root = child] ELSE tree
        m1 == IF parent = NULL THEN mem
              ELSE IF mem[parent].left = current
                   THEN [mem EXCEPT ![parent].left = child]
                   ELSE [mem EXCEPT ![parent].right = child]
    IN Res(DS_OK, p, [t1 EXCEPT !.size = tree.size - 1],
           ds_free_mem(m1, current), ds_free_set(allocated, current))

\* Case 3 clearing the slot that pointed to the successor instead of putting
\* the successor's right child there.
RemoveTwoChildren_dropright(current) ==
    LET w == SuccessorWalk(mem[current].right, current)
        successor == w.successor
        successor_parent == w.successor_parent
        m1 == [mem EXCEPT ![current].data = mem[successor].data]
        m2 == IF m1[successor_parent].left = successor
              THEN [m1 EXCEPT ![successor_parent].left = NULL]
              ELSE [m1 EXCEPT ![successor_parent].right = NULL]
    IN Res(DS_OK, IF successor_parent = current THEN "two_direct" ELSE "two_deep",
           [tree EXCEPT !.size = tree.size - 1],
           ds_free_mem(m2, successor), ds_free_set(allocated, successor))

\* Case 3 without the copy of the successor's payload into current.
RemoveTwoChildren_nocopy(current) ==
    LET w == SuccessorWalk(mem[current].right, current)
        successor == w.successor
        successor_parent == w.successor_parent
        m2 == IF mem[successor_parent].left = successor
              THEN [mem EXCEPT ![successor_parent].left = mem[successor].right]
              ELSE [mem EXCEPT ![successor_parent].right = mem[successor].right]
    IN Res(DS_OK, IF successor_parent = current THEN "two_direct" ELSE "two_deep",
           [tree EXCEPT !.size = tree.size - 1],
           ds_free_mem(m2, successor), ds_free_set(allocated, successor))

\* Case 3 of ds_tree_remove: current takes the successor's payload and the
\* successor node is unlinked and released.
RemoveTwoChildren(current) ==
    LET w == SuccessorWalk(mem[current].right, current)
        successor == w.successor
        successor_parent == w.successor_parent
        m1 == [mem EXCEPT ![current].data = mem[successor].data]
        m2 == IF m1[successor_parent].left = successor
              THEN [m1 EXCEPT ![successor_parent].left = m1[successor].right]
              ELSE [m1 EXCEPT ![successor_parent].right = m1[successor].right]
    IN Res(DS_OK, IF successor_parent = current THEN "two_direct" ELSE "two_deep",
           [tree EXCEPT !.size = tree.size - 1],
           ds_free_mem(m2, successor), ds_free_set(allocated, successor))

\* ds_tree_remove with the size decrement also reached when nothing matched.
ds_tree_remove_countmiss(T, target, c) ==
    IF T = NULL \/ target = NULL \/ c = NULL
    THEN Res(DS_ERR_NULLARG, "nullarg", tree, mem, allocated)
    ELSE LET s == RemoveDescend(tree.root, NULL, target, c)
             current == s.current
             parent == s.parent
         IN IF current = NULL
            THEN Res(DS_ERR_NOTFOUND, "notfound",
                     [tree EXCEPT !.size = tree.size - 1], mem, allocated)
            ELSE IF mem[current].left = NULL /\ mem[current].right = NULL
            THEN RemoveSplice(parent, current, NULL, "leaf")
            ELSE IF mem[current].left = NULL \/ mem[current].right = NULL
            THEN RemoveSplice(parent, current,
                              IF mem[current].left # NULL THEN mem[current].left
                              ELSE mem[current].right, "one")
            ELSE RemoveTwoChildren(current)

ds_tree_remove(T, target, c) ==
    IF T = NULL \/ target = NULL \/ c = NULL
    THEN Res(DS_ERR_NULLARG, "nullarg", tree, mem, allocated)
    ELSE LET s == RemoveDescend(tree.root, NULL, target, c)
             current == s.current
             parent == s.parent
         IN IF current = NULL
            THEN Res(DS_ERR_NOTFOUND, "notfound", tree, mem, allocated)
            ELSE IF mem[current].left = NULL /\ mem[current].right = NULL
            THEN RemoveSplice(parent, current, NULL, "leaf")
            ELSE IF mem[current].left = NULL \/ mem[current].right = NULL
            THEN RemoveSplice(parent, current,
                              IF mem[current].left # NULL THEN mem[current].left
                              ELSE mem[current].right, "one")
            ELSE RemoveTwoChildren(current)

ds_tree_size(T) == IF T = NULL THEN 0 ELSE tree.size

ds_tree_is_empty(T) ==
    IF T = NULL THEN 1 ELSE IF tree.root = NULL THEN 1 ELSE 0

RECURSIVE print_subtree_leftfirst(_, _)
\* print_subtree printing the left subtree before the node and the right one.
print_subtree_leftfirst(node, depth) ==
    IF node = NULL THEN <<>>
    ELSE print_subtree_leftfirst(mem[node].left, depth + 1)
         \o << [indent |-> depth,
                text |-> IF mem[node].data # NULL THEN Deref[mem[node].data]
                         ELSE NULL] >>
         \o print_subtree_leftfirst(mem[node].right, depth + 1)

RECURSIVE print_subtree(_, _)
\* The lines print_subtree(node, out, depth) writes, in order: each line is
\* depth indents followed by the int the node's payload points to.
print_subtree(node, depth) ==
    IF node = NULL THEN <<>>
    ELSE print_subtree(mem[node].right, depth + 1)
         \o << [indent |-> depth,
                text |-> IF mem[node].data # NULL THEN Deref[mem[node].data]
                         ELSE NULL] >>
         \o print_subtree(mem[node].left, depth + 1)

\* What ds_tree_visualize(T, out) writes: a header and the node lines.
ds_tree_visualize(T) ==
    IF T = NULL THEN [header |-> "Tree: NULL", size |-> 0, lines |-> <<>>]
    ELSE IF tree.root = NULL
    THEN [header |-> "Tree: [empty]", size |-> tree.size, lines |-> <<>>]
    ELSE [header |-> "Tree:", size |-> tree.size, lines |-> print_subtree(tree.root, 0)]

RECURSIVE free_subtree_noright(_, _, _)
\* free_subtree without the recursion into the right subtree.
free_subtree_noright(st, node, free_data) ==
    IF node = NULL THEN st
    ELSE LET s1 == free_subtree_noright(st, st.mem[node].left, free_data)
             d == s1.mem[node].data
         IN [mem |-> ds_free_mem(s1.mem, node),
             allocated |-> ds_free_set(s1.allocated, node),
             calls |-> IF free_data /\ d # NULL THEN Append(s1.calls, d) ELSE s1.calls]

RECURSIVE free_subtree(_, _, _)
\* Heap, allocation set and destructor calls after free_subtree(node, free_data).
free_subtree(st, node, free_data) ==
    IF node = NULL THEN st
    ELSE LET s1 == free_subtree(st, st.mem[node].left, free_data)
             s2 == free_subtree(s1, s1.mem[node].right, free_data)
             d == s2.mem[node].data
         IN [mem |-> ds_free_mem(s2.mem, node),
             allocated |-> ds_free_set(s2.allocated, node),
             calls |-> IF free_data /\ d # NULL THEN Append(s2.calls, d) ELSE s2.calls]

ds_tree_free(T, free_data) ==
    IF T = NULL THEN [ret |-> DS_ERR_NULLARG, c |-> tree, mem |-> mem,
                      allocated |-> allocated, calls |-> <<>>]
    ELSE LET st == free_subtree([mem |-> mem, allocated |-> allocated, calls |-> <<>>],
                                tree.root, free_data)
         IN [ret |-> DS_OK, c |-> [live |-> FALSE, root |-> NULL, size |-> 0],
             mem |-> st.mem, allocated |-> st.allocated, calls |-> st.calls]

\* ---------------------------------------------------------- history values
FreshCnt == [n |-> 0, d |-> 0]

\* An inserting call (push, enqueue, insert) of kind k returned r.
CntIns(k, r) ==
    [cnt EXCEPT ![k] = [n |-> IF r.ret = DS_OK THEN @.n + 1 ELSE @.n,
                        d |-> IF r.path = "dup" THEN @.d + 1 ELSE @.d]]

\* A status-returning removal (ds_list_remove, ds_tree_remove) returned r.
CntRem(k, r) ==
    [cnt EXCEPT ![k].n = IF r.ret = DS_OK THEN @ - 1 ELSE @]

\* A pop or dequeue took path r.path ("ok" when a node was detached).
CntPop(k, r) ==
    [cnt EXCEPT ![k].n = IF r.path = "ok" THEN @ - 1 ELSE @]

FreshFifo == [phase |-> "push", pushed |-> <<>>, popped |-> <<>>]
OffFifo   == [phase |-> "off", pushed |-> <<>>, popped |-> <<>>]

\* The push_back/pop_front run after list call n with argument d returned r.
\* A run starts on an empty list, collects the payloads of successful
\* push_back calls, then the payloads pop_front returns; any other call that
\* changes the list ends it.
FifoStep(n, d, r) ==
    LET base == IF list.head = NULL THEN FreshFifo ELSE fifo
    IN IF n = "ds_list_push_back" /\ r.ret = DS_OK
       THEN IF base.phase = "push"
            THEN [base EXCEPT !.pushed = Append(@, d)] ELSE OffFifo
       ELSE IF n = "ds_list_pop_front" /\ r.path = "ok"
       THEN IF base.phase \in {"push", "pop"}
            THEN [base EXCEPT !.phase = "pop", !.popped = Append(@, r.ret)]
            ELSE OffFifo
       ELSE IF n \in {"ds_list_push_front", "ds_list_remove"} /\ r.ret = DS_OK
       THEN OffFifo
       ELSE fifo

\* The push/pop run after stack call n with argument d returned r.  A run
\* starts on an empty stack, collects the payloads of successful push calls,
\* then the payloads pop returns; a push after a pop ends it.
LifoStep(n, d, r) ==
    LET base == IF stack.top = NULL THEN FreshFifo ELSE lifo
    IN IF n = "ds_stack_push" /\ r.ret = DS_OK
       THEN IF base.phase = "push"
            THEN [base EXCEPT !.pushed = Append(@, d)] ELSE OffFifo
       ELSE IF n = "ds_stack_pop" /\ r.ret # NULL
       THEN IF base.phase \in {"push", "pop"}
            THEN [base EXCEPT !.phase = "pop", !.popped = Append(@, r.ret)]
            ELSE OffFifo
       ELSE lifo

\* The payloads waiting in the queue after queue call n with argument d
\* returned r: a successful enqueue adds d as the newest, a dequeue that
\* returned a payload drops the oldest.
PendingStep(n, d, r) ==
    IF n = "ds_queue_enqueue" /\ r.ret = DS_OK THEN Append(pending, d)
    ELSE IF n = "ds_queue_dequeue" /\ r.ret # NULL /\ pending # <<>> THEN Tail(pending)
    ELSE pending

\* The tree scenario: insert 50, 30, 70, 20, 40, then remove 50.
Scenario == << <<"ds_tree_insert", 1>>, <<"ds_tree_insert", 2>>,
              <<"ds_tree_insert", 3>>, <<"ds_tree_insert", 4>>,
              <<"ds_tree_insert", 5>>, <<"ds_tree_remove", 1>> >>

\* Position in Scenario after tree call n with argument d returned r: the
\* scenario starts on an empty tree and is left by any other call.
ScriptStep(n, T, d, c, r) ==
    LET base == IF tree.root = NULL THEN 0 ELSE script
    IN IF /\ base >= 0 /\ base < Len(Scenario)
          /\ Scenario[base + 1] = <<n, d>>
          /\ T # NULL /\ c # NULL /\ r.ret = DS_OK
       THEN base + 1
       ELSE IF r.c.root = NULL THEN 0 ELSE -1

\* The list scenario of main(): on a new list push_front(a = 10),
\* push_front(b = 20), push_back(c = 30), find(&key_find = 20), pop_front,
\* remove(&key = 30) and free with the destructor free_int.
ListScenario == << <<"ds_list_push_front", 6>>, <<"ds_list_push_front", 4>>,
                   <<"ds_list_push_back", 2>>, <<"ds_list_find", 8>>,
                   <<"ds_list_pop_front", NULL>>, <<"ds_list_remove", 7>>,
                   <<"ds_list_free", NULL>> >>

\* Position in ListScenario after list call n with handle L, argument d and
\* comparator c, during which ds_alloc failed (af) or not, and which passed a
\* destructor (fd) or not.  The scenario starts at ds_list_create; any call
\* that is not its next step leaves it.  ds_list_size is asked in between.
ListScriptStep(n, L, d, c, af, fd) ==
    IF /\ lscript >= 0 /\ lscript < Len(ListScenario)
       /\ ListScenario[lscript + 1] = <<n, d>>
       /\ L # NULL /\ ~af
       /\ n \in {"ds_list_find", "ds_list_remove"} => c = CMP_INT
       /\ n = "ds_list_free" => fd
    THEN lscript + 1
    ELSE -1

\* ---------------------------------------------------------------- actions
\* The caller is between calls: the previous result has been taken.
Idle == Call("idle", NULL, NULL, NULL, FALSE, "ok")
Ready == op = Idle

\* The caller holds one container at a time: it creates the next one only
\* after freeing the one it had.
NoneLive == ~list.live /\ ~stack.live /\ ~queue.live /\ ~tree.live

\* The caller takes the result of the call that just returned.
Resume ==
    /\ ~Ready
    /\ op' = Idle
    /\ ret' = NULL
    /\ UNCHANGED <<allocated, mem, list, stack, queue, tree, destructed,
                   cnt, err, present, fifo, lifo, pending, script, lscript>>

\* Argument tuples of a call: every payload of P with the live handle (and
\* the comparator), and one tuple for each argument being null.
Args2(P) == ({HANDLE} \X P) \cup {<<NULL, Min(P)>>, <<HANDLE, NULL>>}
Args3(P) == ({HANDLE} \X P \X {CMP_INT})
            \cup {<<NULL, Min(P), CMP_INT>>, <<HANDLE, NULL, CMP_INT>>,
                  <<HANDLE, Min(P), NULL>>}

\* Calls of the stack, queue and tree.
KindCall(n, h, d, c, af, r) ==
    /\ mem' = r.mem
    /\ allocated' = r.allocated
    /\ ret' = r.ret
    /\ op' = Call(n, h, d, c, af, r.path)

KindQuery(n, h, v) ==
    /\ ret' = v
    /\ op' = Call(n, h, NULL, NULL, FALSE, "ok")
    /\ UNCHANGED <<allocated, mem, list, stack, queue, tree, destructed,
                   cnt, err, present, fifo, lifo, pending, script, lscript>>

KindFree(n, h, free_data, r) ==
    /\ mem' = r.mem
    /\ allocated' = r.allocated
    /\ ret' = r.ret
    /\ destructed' = r.calls
    /\ op' = Call(n, h, NULL, NULL, FALSE,
                  IF free_data THEN "destructor" ELSE "plain")

\* A create call: ds_alloc returned a for the container struct; the history
\* starts afresh.
KindCreate(n, a) ==
    /\ ret' = IF a = NULL THEN NULL ELSE HANDLE
    /\ op' = Call(n, NULL, NULL, NULL, a = NULL, IF a = NULL THEN "oom" ELSE "ok")
    /\ destructed' = <<>>
    /\ cnt' = [k \in Kinds |-> FreshCnt]
    /\ err' = FALSE
    /\ present' = {}
    /\ fifo' = FreshFifo
    /\ lifo' = FreshFifo
    /\ pending' = <<>>
    /\ script' = 0
    /\ lscript' = IF n = "ds_list_create" /\ a # NULL THEN 0 ELSE -1

ListCall(n, L, d, c, af, r) ==
    /\ list' = r.c
    /\ mem' = r.mem
    /\ allocated' = r.allocated
    /\ ret' = r.ret
    /\ op' = Call(n, L, d, c, af, r.path)
    /\ fifo' = FifoStep(n, d, r)
    /\ lscript' = ListScriptStep(n, L, d, c, af, FALSE)
    /\ UNCHANGED <<stack, queue, tree, destructed, present, lifo, pending, script>>

ListCreate ==
    /\ Ready /\ NoneLive
    /\ \E a \in Handles :
          /\ list' = ds_list_create(a)
          /\ KindCreate("ds_list_create", a)
    /\ UNCHANGED <<allocated, mem, stack, queue, tree>>

ListFree ==
    \E L \in Handles, free_data \in BOOLEAN :
        /\ Ready /\ (L # NULL => list.live)
        /\ LET r == ds_list_free(L, free_data)
           IN /\ list' = r.c
              /\ mem' = r.mem
              /\ allocated' = r.allocated
              /\ ret' = r.ret
              /\ destructed' = r.calls
              /\ op' = Call("ds_list_free", L, NULL, NULL, FALSE,
                            IF free_data THEN "destructor" ELSE "plain")
        /\ fifo' = IF L = NULL THEN fifo ELSE OffFifo
        /\ lscript' = ListScriptStep("ds_list_free", L, NULL, NULL, FALSE, free_data)
        /\ UNCHANGED <<stack, queue, tree, cnt, err, present, lifo, pending, script>>

ListPushFront(P, cap) ==
    \E x \in Args2(P), a \in ds_alloc(cap) :
        /\ Ready /\ (x[1] # NULL => list.live)
        /\ LET r == ds_list_push_front(x[1], x[2], a)
           IN /\ ListCall("ds_list_push_front", x[1], x[2], NULL, a = NULL, r)
              /\ err' = (err \/ r.ret # DS_OK)
              /\ cnt' = CntIns("list", r)

ListPushBack(P, cap) ==
    \E x \in Args2(P), a \in ds_alloc(cap) :
        /\ Ready /\ (x[1] # NULL => list.live)
        /\ LET r == ds_list_push_back(x[1], x[2], a)
           IN /\ ListCall("ds_list_push_back", x[1], x[2], NULL, a = NULL, r)
              /\ err' = (err \/ r.ret # DS_OK)
              /\ cnt' = CntIns("list", r)

ListPopFront ==
    \E L \in Handles :
        /\ Ready /\ (L # NULL => list.live)
        /\ LET r == ds_list_pop_front(L)
           IN /\ ListCall("ds_list_pop_front", L, NULL, NULL, FALSE, r)
              /\ UNCHANGED err
              /\ cnt' = CntPop("list", r)

ListRemove(P) ==
    \E x \in Args3(P) :
        /\ Ready /\ (x[1] # NULL => list.live)
        /\ LET r == ds_list_remove(x[1], x[2], x[3])
           IN /\ ListCall("ds_list_remove", x[1], x[2], x[3], FALSE, r)
              /\ err' = (err \/ r.ret # DS_OK)
              /\ cnt' = CntRem("list", r)

ListFind(P) ==
    \E x \in Args3(P) :
        /\ Ready /\ (x[1] # NULL => list.live)
        /\ LET r == ds_list_find(x[1], x[2], x[3])
           IN /\ ListCall("ds_list_find", x[1], x[2], x[3], FALSE, r)
              /\ UNCHANGED <<cnt, err>>

ListSize ==
    \E L \in Handles :
        /\ Ready /\ (L # NULL => list.live)
        /\ ret' = ds_list_size(L)
        /\ op' = Call("ds_list_size", L, NULL, NULL, FALSE, "ok")
        /\ UNCHANGED <<allocated, mem, list, stack, queue, tree, destructed,
                       cnt, err, present, fifo, lifo, pending, script, lscript>>

StackCreate ==
    /\ Ready /\ NoneLive
    /\ \E a \in Handles :
          /\ stack' = ds_stack_create(a)
          /\ KindCreate("ds_stack_create", a)
    /\ UNCHANGED <<allocated, mem, list, queue, tree>>

StackFree ==
    \E S \in Handles, free_data \in BOOLEAN :
        /\ Ready /\ (S # NULL => stack.live)
        /\ LET r == ds_stack_free(S, free_data)
           IN /\ stack' = r.c
              /\ KindFree("ds_stack_free", S, free_data, r)
        /\ lifo' = IF S = NULL THEN lifo ELSE OffFifo
        /\ UNCHANGED <<list, queue, tree, cnt, err, present, fifo, pending, script, lscript>>

StackPush(P, cap) ==
    \E x \in Args2(P), a \in ds_alloc(cap) :
        /\ Ready /\ (x[1] # NULL => stack.live)
        /\ LET r == ds_stack_push(x[1], x[2], a)
           IN /\ stack' = r.c
              /\ KindCall("ds_stack_push", x[1], x[2], NULL, a = NULL, r)
              /\ err' = (err \/ r.ret # DS_OK)
              /\ cnt' = CntIns("stack", r)
              /\ lifo' = LifoStep("ds_stack_push", x[2], r)
        /\ UNCHANGED <<list, queue, tree, destructed, present, fifo, pending, script, lscript>>

StackPop ==
    \E S \in Handles :
        /\ Ready /\ (S # NULL => stack.live)
        /\ LET r == ds_stack_pop(S)
           IN /\ stack' = r.c
              /\ KindCall("ds_stack_pop", S, NULL, NULL, FALSE, r)
              /\ UNCHANGED err
              /\ cnt' = CntPop("stack", r)
              /\ lifo' = LifoStep("ds_stack_pop", NULL, r)
        /\ UNCHANGED <<list, queue, tree, destructed, present, fifo, pending, script, lscript>>

StackPeek ==
    \E S \in Handles :
        /\ Ready /\ (S # NULL => stack.live)
        /\ KindQuery("ds_stack_peek", S, ds_stack_peek(S))

StackIsEmpty ==
    \E S \in Handles :
        /\ Ready /\ (S # NULL => stack.live)
        /\ KindQuery("ds_stack_is_empty", S, ds_stack_is_empty(S))

StackSize ==
    \E S \in Handles :
        /\ Ready /\ (S # NULL => stack.live)
        /\ KindQuery("ds_stack_size", S, ds_stack_size(S))

QueueCreate ==
    /\ Ready /\ NoneLive
    /\ \E a \in Handles :
          /\ queue' = ds_queue_create(a)
          /\ KindCreate("ds_queue_create", a)
    /\ UNCHANGED <<allocated, mem, list, stack, tree>>

QueueFree ==
    \E Q \in Handles, free_data \in BOOLEAN :
        /\ Ready /\ (Q # NULL => queue.live)
        /\ LET r == ds_queue_free(Q, free_data)
           IN /\ queue' = r.c
              /\ KindFree("ds_queue_free", Q, free_data, r)
        /\ pending' = IF Q = NULL THEN pending ELSE <<>>
        /\ UNCHANGED <<list, stack, tree, cnt, err, present, fifo, lifo, script, lscript>>

QueueEnqueue(P, cap) ==
    \E x \in Args2(P), a \in ds_alloc(cap) :
        /\ Ready /\ (x[1] # NULL => queue.live)
        /\ LET r == ds_queue_enqueue(x[1], x[2], a)
           IN /\ queue' = r.c
              /\ KindCall("ds_queue_enqueue", x[1], x[2], NULL, a = NULL, r)
              /\ err' = (err \/ r.ret # DS_OK)
              /\ cnt' = CntIns("queue", r)
              /\ pending' = PendingStep("ds_queue_enqueue", x[2], r)
        /\ UNCHANGED <<list, stack, tree, destructed, present, fifo, lifo, script, lscript>>

QueueDequeue ==
    \E Q \in Handles :
        /\ Ready /\ (Q # NULL => queue.live)
        /\ LET r == ds_queue_dequeue(Q)
           IN /\ queue' = r.c
              /\ KindCall("ds_queue_dequeue", Q, NULL, NULL, FALSE, r)
              /\ UNCHANGED err
              /\ cnt' = CntPop("queue", r)
              /\ pending' = PendingStep("ds_queue_dequeue", NULL, r)
        /\ UNCHANGED <<list, stack, tree, destructed, present, fifo, lifo, script, lscript>>

QueuePeek ==
    \E Q \in Handles :
        /\ Ready /\ (Q # NULL => queue.live)
        /\ KindQuery("ds_queue_peek", Q, ds_queue_peek(Q))

QueueIsEmpty ==
    \E Q \in Handles :
        /\ Ready /\ (Q # NULL => queue.live)
        /\ KindQuery("ds_queue_is_empty", Q, ds_queue_is_empty(Q))

QueueSize ==
    \E Q \in Handles :
        /\ Ready /\ (Q # NULL => queue.live)
        /\ KindQuery("ds_queue_size", Q, ds_queue_size(Q))

TreeCreate ==
    /\ Ready /\ NoneLive
    /\ \E a \in Handles :
          /\ tree' = ds_tree_create(a)
          /\ KindCreate("ds_tree_create", a)
    /\ UNCHANGED <<allocated, mem, list, stack, queue>>

TreeFree ==
    \E T \in Handles, free_data \in BOOLEAN :
        /\ Ready /\ (T # NULL => tree.live)
        /\ LET r == ds_tree_free(T, free_data)
           IN /\ tree' = r.c
              /\ KindFree("ds_tree_free", T, free_data, r)
        /\ UNCHANGED <<list, stack, queue, cnt, err, present, fifo, lifo, pending, script, lscript>>

TreeInsert(P, cap) ==
    \E x \in Args3(P), a \in ds_alloc(cap) :
        /\ Ready /\ (x[1] # NULL => tree.live)
        /\ LET r == ds_tree_insert(x[1], x[2], x[3], a)
           IN /\ r.path = "dup" => cnt["tree"].d < MaxDups
              /\ tree' = r.c
              /\ KindCall("ds_tree_insert", x[1], x[2], x[3], a = NULL, r)
              /\ err' = (err \/ r.ret # DS_OK)
              /\ cnt' = CntIns("tree", r)
              /\ present' = IF r.ret = DS_OK THEN present \cup {Deref[x[2]]}
                            ELSE present
              /\ script' = ScriptStep("ds_tree_insert", x[1], x[2], x[3], r)
        /\ UNCHANGED <<list, stack, queue, destructed, fifo, lifo, pending, lscript>>

TreeRemove(P) ==
    \E x \in Args3(P) :
        /\ Ready /\ (x[1] # NULL => tree.live)
        /\ LET r == ds_tree_remove(x[1], x[2], x[3])
           IN /\ tree' = r.c
              /\ KindCall("ds_tree_remove", x[1], x[2], x[3], FALSE, r)
              /\ err' = (err \/ r.ret # DS_OK)
              /\ cnt' = CntRem("tree", r)
              /\ present' = IF r.ret = DS_OK THEN present \ {Deref[x[2]]}
                            ELSE present
              /\ script' = ScriptStep("ds_tree_remove", x[1], x[2], x[3], r)
        /\ UNCHANGED <<list, stack, queue, destructed, fifo, lifo, pending, lscript>>

TreeFind(P) ==
    \E x \in Args3(P) :
        /\ Ready /\ (x[1] # NULL => tree.live)
        /\ LET r == ds_tree_find(x[1], x[2], x[3])
           IN /\ tree' = r.c
              /\ KindCall("ds_tree_find", x[1], x[2], x[3], FALSE, r)
              /\ script' = ScriptStep("ds_tree_find", x[1], x[2], x[3], r)
        /\ UNCHANGED <<list, stack, queue, destructed, cnt, err, present, fifo, lifo,
                       pending, lscript>>

TreeSize ==
    \E T \in Handles :
        /\ Ready /\ (T # NULL => tree.live)
        /\ KindQuery("ds_tree_size", T, ds_tree_size(T))

TreeIsEmpty ==
    \E T \in Handles :
        /\ Ready /\ (T # NULL => tree.live)
        /\ KindQuery("ds_tree_is_empty", T, ds_tree_is_empty(T))

TreeVisualize ==
    \E T \in Handles :
        /\ Ready /\ (T # NULL => tree.live)
        /\ KindQuery("ds_tree_visualize", T, ds_tree_visualize(T))

\* ---------------------------------------------------------- specifications
\* The state after the caller has created one container of kind k.
InitKind(k) ==
    /\ allocated = {}
    /\ mem = [a \in Addr |-> FreshNode]
    /\ list = ds_list_create(IF k = "list" THEN HANDLE ELSE NULL)
    /\ stack = ds_stack_create(IF k = "stack" THEN HANDLE ELSE NULL)
    /\ queue = ds_queue_create(IF k = "queue" THEN HANDLE ELSE NULL)
    /\ tree = ds_tree_create(IF k = "tree" THEN HANDLE ELSE NULL)
    /\ op = Idle
    /\ ret = NULL
    /\ destructed = <<>>
    /\ cnt = [j \in Kinds |-> FreshCnt]
    /\ err = FALSE
    /\ present = {}
    /\ fifo = FreshFifo
    /\ lifo = FreshFifo
    /\ pending = <<>>
    /\ script = 0
    /\ lscript = IF k = "list" THEN 0 ELSE -1

Init == \E k \in Kinds : InitKind(k)

Next ==
    \/ Resume
    \/ ListCreate
    \/ ListFree
    \/ ListPushFront(ListStored, MaxChain)
    \/ ListPushBack(ListStored, MaxChain)
    \/ ListPopFront
    \/ ListRemove(ListPtrs \cup ListKeys)
    \/ ListFind(ListPtrs \cup ListKeys)
    \/ ListSize
    \/ StackCreate
    \/ StackFree
    \/ StackPush(ListPtrs, MaxChain)
    \/ StackPop
    \/ StackPeek
    \/ StackIsEmpty
    \/ StackSize
    \/ QueueCreate
    \/ QueueFree
    \/ QueueEnqueue(ListPtrs, MaxChain)
    \/ QueueDequeue
    \/ QueuePeek
    \/ QueueIsEmpty
    \/ QueueSize
    \/ TreeCreate
    \/ TreeFree
    \/ TreeInsert(TreePtrs, MaxNodes)
    \/ TreeRemove(TreePtrs)
    \/ TreeFind(TreePtrs)
    \/ TreeSize
    \/ TreeIsEmpty
    \/ TreeVisualize

Spec == Init /\ [][Next]_vars

\* A tree over the five keys of the end-to-end scenario.
NextScenario ==
    \/ Resume
    \/ TreeInsert(ScenarioPtrs, MaxNodes)
    \/ TreeRemove(ScenarioPtrs)

SpecScenario == InitKind("tree") /\ [][NextScenario]_vars

\* The state after a caller has created one container of each kind: the four
\* create functions each returned a handle to an empty container.
InitAll ==
    /\ allocated = {}
    /\ mem = [a \in Addr |-> FreshNode]
    /\ list = ds_list_create(HANDLE)
    /\ stack = ds_stack_create(HANDLE)
    /\ queue = ds_queue_create(HANDLE)
    /\ tree = ds_tree_create(HANDLE)
    /\ op = Idle
    /\ ret = NULL
    /\ destructed = <<>>
    /\ cnt = [j \in Kinds |-> FreshCnt]
    /\ err = FALSE
    /\ present = {}
    /\ fifo = FreshFifo
    /\ lifo = FreshFifo
    /\ pending = <<>>
    /\ script = 0
    /\ lscript = -1

\* The caller repeats on the list the call it has just made on the queue,
\* with the same arguments and the same outcome of ds_alloc: ds_list_push_back
\* for ds_queue_enqueue, ds_list_pop_front for ds_queue_dequeue and
\* ds_list_size for ds_queue_size.
MirrorPushBack ==
    /\ op.name = "ds_queue_enqueue"
    /\ \E a \in ds_alloc(MaxNodes) :
          /\ (a = NULL) = op.afail
          /\ LET r == ds_list_push_back(op.h, op.data, a)
             IN /\ ListCall("ds_list_push_back", op.h, op.data, NULL, a = NULL, r)
                /\ err' = (err \/ r.ret # DS_OK)
                /\ cnt' = CntIns("list", r)

MirrorPopFront ==
    /\ op.name = "ds_queue_dequeue"
    /\ LET r == ds_list_pop_front(op.h)
       IN /\ ListCall("ds_list_pop_front", op.h, NULL, NULL, FALSE, r)
          /\ UNCHANGED err
          /\ cnt' = CntPop("list", r)

MirrorSize ==
    /\ op.name = "ds_queue_size"
    /\ ret' = ds_list_size(op.h)
    /\ op' = Call("ds_list_size", op.h, NULL, NULL, FALSE, "ok")
    /\ UNCHANGED <<allocated, mem, list, stack, queue, tree, destructed,
                   cnt, err, present, fifo, lifo, pending, script, lscript>>

\* The caller takes the result of the list call that repeated the queue call.
PairResume ==
    /\ op.name \in {"ds_list_push_back", "ds_list_pop_front", "ds_list_size"}
    /\ Resume

\* A queue and a list driven by the same sequence of calls.  ds_alloc may
\* succeed for the queue only when a second block is left for the list.
NextPair ==
    \/ QueueEnqueue(ListPtrs, MaxNodes - 1)
    \/ QueueDequeue
    \/ QueueSize
    \/ MirrorPushBack
    \/ MirrorPopFront
    \/ MirrorSize
    \/ PairResume

SpecPair == InitAll /\ [][NextPair]_vars

\* The payloads offered to the containers that live side by side: one
\* reference each for the list, the stack and the queue, two keys for the tree.
FrameList == {6}
FrameStack == {4}
FrameQueue == {2}
FrameKeys == {1, 3}

\* One container of each kind lives in the same heap and the caller works
\* on them in any order.
NextFrame ==
    \/ Resume
    \/ ListPushBack(FrameList, MaxChain)
    \/ ListPopFront
    \/ ListFree
    \/ StackPush(FrameStack, MaxChain)
    \/ QueueEnqueue(FrameQueue, MaxChain)
    \/ TreeInsert(FrameKeys, MaxChain)
    \/ TreeRemove(FrameKeys)
    \/ TreeFree

SpecFrame == InitAll /\ [][NextFrame]_vars

\* ------------------------------------------------------------------ claims
SeqSet(q) == {q[i] : i \in 1..Len(q)}

\* The in-order payload sequence of the tree is strictly ascending under
\* cmp_int, and every node's left subtree holds only smaller keys and its
\* right subtree only larger keys.
BSTOrdered ==
    /\ \A i, j \in 1..Len(TreeOrder) :
          i < j => cmp_int(TreeOrder[i], TreeOrder[j]) < 0
    /\ \A n \in SeqSet(InOrderNodes(mem, tree.root)) :
          /\ \A x \in SeqSet(InOrderNodes(mem, mem[n].left)) :
                cmp_int(mem[x].data, mem[n].data) < 0
          /\ \A x \in SeqSet(InOrderNodes(mem, mem[n].right)) :
                cmp_int(mem[x].data, mem[n].data) > 0

\* The reachable tree nodes whose payload compares equal to payload k.
NodesEqual(k) ==
    {n \in SeqSet(InOrderNodes(mem, tree.root)) : cmp_int(mem[n].data, k) = 0}

\* A call of function n whose handle, payload and comparator are all present.
ValidCall(o, n) == o.name = n /\ o.h # NULL /\ o.data # NULL /\ o.cmp # NULL

\* C1: in every state between calls, failed calls included, the cached size
\* of each live container equals the number of nodes reachable from its
\* head, top, front or root.
C1_SizeIsNodeCount ==
    /\ list.live => list.size = Len(Chain(mem, list.head))
    /\ stack.live => stack.size = Len(Chain(mem, stack.top))
    /\ queue.live => queue.size = Len(Chain(mem, queue.front))
    /\ tree.live => tree.size = count_nodes(mem, tree.root)

C1_Witness ==
    /\ op.name = "ds_tree_remove" /\ op.path = "two_deep"
    /\ tree.size = 3 /\ count_nodes(mem, tree.root) = 3

\* C2: after any sequence of ds_tree_insert calls with the one comparator,
\* the in-order traversal is strictly ascending: left subtrees hold smaller
\* keys, right subtrees larger keys, and no two nodes compare equal.
C2_InsertKeepsOrder == tree.live => BSTOrdered

C2_Witness ==
    /\ op.name = "ds_tree_insert" /\ op.path \in {"left", "right"}
    /\ ret = DS_OK /\ tree.size = 4

\* C3: ds_tree_remove of a key held by a node with two children returns
\* DS_OK, leaves the tree ordered and decreases size by exactly 1, whether the
\* successor is the direct right child or lies deeper.
C3_RemoveTwoChildren ==
    [][(/\ ValidCall(op', "ds_tree_remove")
        /\ \E n \in NodesEqual(op'.data) :
              mem[n].left # NULL /\ mem[n].right # NULL)
       => (/\ ret' = DS_OK
           /\ BSTOrdered'
           /\ tree'.size = tree.size - 1)]_vars

C3_Witness ==
    /\ op.name = "ds_tree_remove" /\ op.path = "two_deep"
    /\ ret = DS_OK /\ tree.size >= 3

\* C4: from an empty tree, inserting 50, 30, 70, 20, 40 and then removing 50
\* leaves root payload 40, size 4 and in-order traversal 20, 30, 40, 70.
C4_TreeScenario ==
    script = Len(Scenario) =>
        /\ Deref[mem[tree.root].data] = 40
        /\ tree.size = 4
        /\ Values(TreeOrder) = <<20, 30, 40, 70>>

\* C4 as amended: the same scenario leaves root payload 70 (the successor of
\* 50), size 4 and in-order traversal 20, 30, 40, 70.
C4_TreeScenarioSuccessor ==
    script = Len(Scenario) =>
        /\ Deref[mem[tree.root].data] = 70
        /\ tree.size = 4
        /\ Values(TreeOrder) = <<20, 30, 40, 70>>

C4_Witness == script = Len(Scenario) /\ op.name = "ds_tree_remove" /\ ret = DS_OK

\* C5: ds_tree_insert of a key comparing equal to a stored key returns DS_OK
\* and leaves size, shape and every payload reference unchanged.
C5_DuplicateInsert ==
    [][(ValidCall(op', "ds_tree_insert") /\ NodesEqual(op'.data) # {})
       => (ret' = DS_OK /\ tree' = tree /\ mem' = mem)]_vars

\* C5 as amended: such an insert leaves size, shape and every payload
\* reference unchanged and returns DS_OK when its node allocation succeeds,
\* DS_ERR_OOM when it fails.
C5_DuplicateInsertAlloc ==
    [][(ValidCall(op', "ds_tree_insert") /\ NodesEqual(op'.data) # {})
       => (/\ ret' = IF op'.afail THEN DS_ERR_OOM ELSE DS_OK
           /\ tree' = tree /\ mem' = mem /\ allocated' = allocated)]_vars

C5_Witness ==
    /\ op.name = "ds_tree_insert" /\ op.path = "dup" /\ ret = DS_OK
    /\ tree.size >= 2
    /\ op.data \notin SeqSet(TreeOrder)

\* The value size() returns for the live container of kind k.
SizeOf(k) ==
    CASE k = "list" -> ds_list_size(HANDLE)
      [] k = "stack" -> ds_stack_size(HANDLE)
      [] k = "queue" -> ds_queue_size(HANDLE)
      [] k = "tree" -> ds_tree_size(HANDLE)

IsLive(k) ==
    CASE k = "list" -> list.live
      [] k = "stack" -> stack.live
      [] k = "queue" -> queue.live
      [] k = "tree" -> tree.live

\* C6: with N insertions that returned ok, M successful removals and no call
\* reporting an error, size() equals N - M for every container.
C6_SizeIsNetCount ==
    ~err => \A k \in Kinds : IsLive(k) => SizeOf(k) = cnt[k].n

\* C6 as amended: size() equals N - M when N leaves out the ds_tree_insert
\* calls that returned ok for a key already stored.
C6_SizeIsNetCountNoDups ==
    ~err => \A k \in Kinds : IsLive(k) => SizeOf(k) = cnt[k].n - cnt[k].d

C6_Witness ==
    /\ ~err /\ cnt["tree"].d = 1 /\ cnt["tree"].n = 2
    /\ op.name = "ds_tree_remove" /\ ret = DS_OK /\ ds_tree_size(HANDLE) = 1

\* C7: when node allocation fails, the five inserting calls return DS_ERR_OOM
\* and leave links, endpoints, payloads and size as they were.
C7_OomLeavesUnchanged ==
    [][(/\ op'.name \in {"ds_list_push_front", "ds_list_push_back",
                          "ds_stack_push", "ds_queue_enqueue", "ds_tree_insert"}
        /\ op'.h # NULL /\ op'.data # NULL
        /\ op'.name = "ds_tree_insert" => op'.cmp # NULL
        /\ op'.afail)
       => (/\ ret' = DS_ERR_OOM
           /\ UNCHANGED <<list, stack, queue, tree, mem, allocated>>)]_vars

C7_Witness ==
    /\ op.name = "ds_list_push_front" /\ op.afail /\ ret = DS_ERR_OOM
    /\ list.size = 2 /\ Len(ListOrder) = 2

\* C8: ds_tree_remove of a key equal to no stored key returns DS_ERR_NOTFOUND
\* and leaves size, shape and payloads unchanged, on an empty tree too.
C8_RemoveAbsent ==
    [][(ValidCall(op', "ds_tree_remove") /\ NodesEqual(op'.data) = {})
       => (/\ ret' = DS_ERR_NOTFOUND
           /\ tree' = tree /\ mem' = mem /\ allocated' = allocated)]_vars

C8_Witness ==
    /\ op.name = "ds_tree_remove" /\ ret = DS_ERR_NOTFOUND
    /\ op.h # NULL /\ tree.size >= 2

\* What ds_tree_find returns for key k agrees with the keys inserted and not
\* removed since.
FindAgrees(k) ==
    LET r == ds_tree_find(HANDLE, k, CMP_INT).ret
    IN IF Deref[k] \in present
       THEN r # NULL /\ cmp_int(r, k) = 0 /\ r \in SeqSet(TreeOrder)
       ELSE r = NULL

\* C9: ds_tree_find(k) returns a stored payload comparing equal to k exactly
\* when k was inserted and not removed since, nothing otherwise, and never
\* changes the tree.
C9_FindTracksKeys ==
    /\ [](tree.live => \A k \in TreePtrs : FindAgrees(k))
    /\ [][op'.name = "ds_tree_find"
           => (/\ UNCHANGED <<tree, mem, allocated>>
               /\ ValidCall(op', "ds_tree_find")
                    => ret' = ds_tree_find(HANDLE, op'.data, CMP_INT).ret)]_vars

C9_Witness ==
    /\ op.name = "ds_tree_find" /\ op.path = "found" /\ ret # NULL
    /\ Cardinality(present) = 3 /\ tree.size = 3
    /\ \E k \in TreePtrs : Deref[k] \notin present

\* C10: push_back calls on an empty list followed by pop_front until the list
\* is empty return the payloads in the order they were pushed.
C10_ListFifo ==
    fifo.phase = "pop" =>
        /\ Len(fifo.popped) <= Len(fifo.pushed)
        /\ fifo.popped = SubSeq(fifo.pushed, 1, Len(fifo.popped))
        /\ list.head = NULL => fifo.popped = fifo.pushed

C10_Witness ==
    /\ fifo.phase = "pop" /\ list.head = NULL
    /\ Len(fifo.popped) = 3
    /\ fifo.popped[1] # fifo.popped[2] /\ fifo.popped[2] # fifo.popped[3]

Reverse(q) == [i \in 1..Len(q) |-> q[Len(q) + 1 - i]]

\* C11: ds_stack_push calls on an empty stack followed by ds_stack_pop until
\* the stack is empty return the payloads in the reverse of the order they
\* were pushed.
C11_StackLifo ==
    lifo.phase = "pop" =>
        /\ Len(lifo.popped) <= Len(lifo.pushed)
        /\ lifo.popped = SubSeq(Reverse(lifo.pushed), 1, Len(lifo.popped))
        /\ stack.top = NULL => lifo.popped = Reverse(lifo.pushed)

C11_Witness ==
    /\ lifo.phase = "pop" /\ stack.top = NULL /\ op.name = "ds_stack_pop"
    /\ Len(lifo.popped) = 3
    /\ lifo.popped[1] # lifo.popped[2] /\ lifo.popped[2] # lifo.popped[3]

\* C12: in any interleaving of ds_queue_enqueue and ds_queue_dequeue, each
\* dequeue that returns a payload returns the oldest one enqueued and not yet
\* dequeued, also after the queue was emptied and filled again.
C12_QueueFifo ==
    [][(op'.name = "ds_queue_dequeue" /\ ret' # NULL)
       => (pending # <<>> /\ ret' = Head(pending))]_vars

C12_Witness ==
    /\ op.name = "ds_queue_dequeue" /\ ret # NULL
    /\ Len(pending) = 2 /\ ret # pending[1] /\ pending[1] # pending[2]
    /\ cnt["queue"].n = 2 /\ ~err

\* C13: on a new list push_front(10), push_front(20), push_back(30) return
\* DS_OK and give size 3 and order 20, 10, 30; find(20) returns the stored
\* payload 20; pop_front returns it and leaves size 2; remove(30) returns
\* DS_OK and leaves size 1; ds_list_free with a destructor returns DS_OK and
\* calls the destructor on payload 10 only.
C13_ListScenario ==
    /\ (lscript \in 1..3 /\ op.name \in {"ds_list_push_front", "ds_list_push_back"})
          => ret = DS_OK
    /\ lscript = 3 => ds_list_size(HANDLE) = 3 /\ Values(ListOrder) = <<20, 10, 30>>
    /\ (lscript = 4 /\ op.name = "ds_list_find") => ret = 4 /\ Deref[ret] = 20
    /\ lscript = 5 => ds_list_size(HANDLE) = 2
    /\ (lscript = 5 /\ op.name = "ds_list_pop_front") => ret = 4 /\ Deref[ret] = 20
    /\ lscript = 6 => ds_list_size(HANDLE) = 1
    /\ (lscript = 6 /\ op.name = "ds_list_remove") => ret = DS_OK
    /\ (lscript = 7 /\ op.name = "ds_list_free")
          => ret = DS_OK /\ destructed = <<6>> /\ Values(destructed) = <<10>>

C13_Witness ==
    /\ lscript = Len(ListScenario) /\ op.name = "ds_list_free"
    /\ ~list.live /\ allocated = {}

\* Index of the first payload of ps that compares equal to k, 0 when none does.
FirstMatch(ps, k) ==
    LET hits == {i \in 1..Len(ps) : cmp_int(ps[i], k) = 0}
    IN IF hits = {} THEN 0 ELSE Min(hits)

\* Sequence q without its i-th element.
Without(q, i) == SubSeq(q, 1, i - 1) \o SubSeq(q, i + 1, Len(q))

\* C14: ds_list_remove unlinks the first node from the head whose payload
\* compares equal to the target, keeps the other nodes in their order and
\* decreases size by 1; when no payload matches it returns DS_ERR_NOTFOUND and
\* leaves the list unchanged.
C14_ListRemoveFirst ==
    [][ValidCall(op', "ds_list_remove")
       => LET i == FirstMatch(ListOrder, op'.data)
              nodes == Chain(mem, list.head)
          IN IF i = 0
             THEN /\ ret' = DS_ERR_NOTFOUND
                  /\ list' = list /\ mem' = mem /\ allocated' = allocated
             ELSE /\ ret' = DS_OK
                  /\ Chain(mem', list'.head) = Without(nodes, i)
                  /\ ListOrder' = Without(ListOrder, i)
                  /\ list'.size = list.size - 1
                  /\ allocated' = allocated \ {nodes[i]}]_vars

C14_Witness ==
    /\ op.name = "ds_list_remove" /\ ret = DS_OK /\ op.path = "middle"
    /\ Len(ListOrder) = 2 /\ cmp_int(ListOrder[2], op.data) = 0

\* C15: ds_list_find returns the payload stored in the first node from the
\* head that compares equal to the target, nothing when no node matches, and
\* leaves head, tail, size and all links unchanged.
C15_ListFindFirst ==
    [][op'.name = "ds_list_find"
       => /\ list' = list /\ mem' = mem /\ allocated' = allocated
          /\ ValidCall(op', "ds_list_find")
               => LET i == FirstMatch(ListOrder, op'.data)
                  IN ret' = IF i = 0 THEN NULL ELSE ListOrder[i]]_vars

C15_Witness ==
    /\ op.name = "ds_list_find" /\ ret # NULL /\ ret # op.data
    /\ Len(ListOrder) = 3 /\ ret = ListOrder[2]
    /\ cmp_int(ListOrder[3], op.data) = 0 /\ ListOrder[3] # ret

SizeOps == {"ds_list_size", "ds_stack_size", "ds_queue_size", "ds_tree_size"}
EmptyResultOps == {"ds_list_pop_front", "ds_stack_pop", "ds_queue_dequeue",
                   "ds_stack_peek", "ds_queue_peek", "ds_list_find", "ds_tree_find"}
MutatingOps == {"ds_list_push_front", "ds_list_push_back", "ds_stack_push",
                "ds_queue_enqueue", "ds_tree_insert", "ds_list_remove",
                "ds_tree_remove"}
FreeOps == {"ds_list_free", "ds_stack_free", "ds_queue_free", "ds_tree_free"}
IsEmptyOps == {"ds_stack_is_empty", "ds_queue_is_empty", "ds_tree_is_empty"}
ErrorStatuses == {DS_ERR_OOM, DS_ERR_INVALID, DS_ERR_NOTFOUND, DS_ERR_NULLARG}

\* The container a call of function n works on is live and holds no element.
LiveEmpty(n) ==
    CASE n \in {"ds_list_pop_front", "ds_list_find"} -> list.live /\ list.head = NULL
      [] n \in {"ds_stack_pop", "ds_stack_peek"} -> stack.live /\ stack.top = NULL
      [] n \in {"ds_queue_dequeue", "ds_queue_peek"} -> queue.live /\ queue.front = NULL
      [] n = "ds_tree_find" -> tree.live /\ tree.root = NULL
      [] OTHER -> FALSE

CmpOps == {"ds_list_remove", "ds_tree_insert", "ds_tree_remove"}
PayloadOps == {"ds_list_push_front", "ds_list_push_back", "ds_stack_push",
               "ds_queue_enqueue"}

\* C17: with handle and payload present and a null comparator,
\* ds_list_remove, ds_tree_insert and ds_tree_remove return DS_ERR_INVALID, a
\* status distinct from the DS_ERR_NULLARG of a null handle or payload.
C17_NullCmpInvalid ==
    [][(op'.name \in CmpOps /\ op'.h # NULL /\ op'.data # NULL /\ op'.cmp = NULL)
       => (ret' = DS_ERR_INVALID /\ ret' # DS_ERR_NULLARG)]_vars

\* C17 as amended: with handle and payload present and a null comparator,
\* the three calls return DS_ERR_NULLARG, which is also the status of a null
\* handle or payload.
C17_NullCmpNullarg ==
    [][(op'.name \in CmpOps /\ (op'.h = NULL \/ op'.data = NULL \/ op'.cmp = NULL))
       => ret' = DS_ERR_NULLARG]_vars

C17_Witness ==
    /\ op.name = "ds_tree_insert" /\ op.h # NULL /\ op.data # NULL /\ op.cmp = NULL
    /\ ret = DS_ERR_NULLARG /\ tree.size = 2

\* C18: the four payload-taking calls return DS_ERR_NULLARG for a null handle
\* or payload, and ds_list_remove, ds_tree_insert and ds_tree_remove for a
\* null handle, payload or comparator; no node is allocated and no container
\* or node changes.
C18_NullArgUnchanged ==
    [][(\/ op'.name \in PayloadOps /\ (op'.h = NULL \/ op'.data = NULL)
        \/ op'.name \in CmpOps
             /\ (op'.h = NULL \/ op'.data = NULL \/ op'.cmp = NULL))
       => (/\ ret' = DS_ERR_NULLARG
           /\ UNCHANGED <<list, stack, queue, tree, mem, allocated>>)]_vars

C18_Witness ==
    /\ op.name = "ds_stack_push" /\ op.h # NULL /\ op.data = NULL
    /\ ~op.afail /\ ret = DS_ERR_NULLARG
    /\ stack.size = 2 /\ Cardinality(allocated) = 2

SizeAsked(n) ==
    CASE n = "ds_stack_is_empty" -> ds_stack_size(HANDLE)
      [] n = "ds_queue_is_empty" -> ds_queue_size(HANDLE)
      [] n = "ds_tree_is_empty" -> ds_tree_size(HANDLE)

\* C20: ds_queue_is_empty, ds_stack_is_empty and ds_tree_is_empty return 1
\* for an empty container, 0 for one that is not empty, and 0 for a null
\* handle.
C20_IsEmptyNullZero ==
    [][op'.name \in IsEmptyOps
       => ret' = IF op'.h = NULL THEN 0
                 ELSE IF SizeAsked(op'.name) = 0 THEN 1 ELSE 0]_vars

\* The part of C20 about live containers: 1 when empty, 0 when not.
C20_IsEmptyLive ==
    [][(op'.name \in IsEmptyOps /\ op'.h # NULL)
       => ret' = IF SizeAsked(op'.name) = 0 THEN 1 ELSE 0]_vars

C20_Witness ==
    /\ op.name = "ds_stack_is_empty" /\ op.h = NULL /\ ret = 1
    /\ stack.live /\ ds_stack_size(HANDLE) = 2

\* C21: a live container has size 0 exactly when all its endpoint references
\* are empty: head and tail, front and rear, top, root.  Taking out the last
\* element therefore clears both endpoints of the list and of the queue.
C21_EmptyEndpoints ==
    /\ list.live => (list.size = 0 <=> (list.head = NULL /\ list.tail = NULL))
    /\ list.live => (list.head = NULL <=> list.tail = NULL)
    /\ queue.live => (queue.size = 0 <=> (queue.front = NULL /\ queue.rear = NULL))
    /\ queue.live => (queue.front = NULL <=> queue.rear = NULL)
    /\ stack.live => (stack.size = 0 <=> stack.top = NULL)
    /\ tree.live => (tree.size = 0 <=> tree.root = NULL)

C21_Witness ==
    /\ op.name = "ds_queue_dequeue" /\ ret # NULL
    /\ queue.live /\ queue.size = 0 /\ queue.front = NULL /\ queue.rear = NULL

\* The nodes a node's links refer to, and the nodes the containers refer to
\* through head, top, front and root.
Links(m, x) == {m[x].next, m[x].left, m[x].right} \ {NULL}
Roots == {list.head, stack.top, queue.front, tree.root} \ {NULL}

RECURSIVE ReachFrom(_, _, _)
\* The nodes reached from the set S by following at most k links.
ReachFrom(m, S, k) ==
    IF k = 0 THEN S
    ELSE ReachFrom(m, S \cup UNION {Links(m, x) : x \in S}, k - 1)

Reachable == ReachFrom(mem, Roots, MaxNodes)

\* The number of links and container references that refer to node n.
InDegree(n) ==
    Cardinality({<<x, f>> \in Reachable \X {"next", "left", "right"} : mem[x][f] = n})
    + Cardinality({c \in {"head", "top", "front", "root"} :
                     CASE c = "head" -> list.head = n
                       [] c = "top" -> stack.top = n
                       [] c = "front" -> queue.front = n
                       [] c = "root" -> tree.root = n})

\* C22: the link structure of every container is acyclic and every reachable
\* node is referred to by exactly one link: one next, one left or right, or
\* the container's head, top, front or root.
C22_AcyclicSingleOwner ==
    /\ \A n \in Reachable : n \notin ReachFrom(mem, Links(mem, n), MaxNodes)
    /\ \A n \in Reachable : InDegree(n) = 1

C22_Witness ==
    /\ op.name = "ds_tree_remove" /\ op.path = "two_direct" /\ ret = DS_OK
    /\ Cardinality(Reachable) = 3 /\ tree.size = 3

\* Number of times x occurs in sequence q.
Count(q, x) == Cardinality({i \in 1..Len(q) : q[i] = x})

\* The payloads held by the nodes of the container that free function n
\* tears down.
Held(n) ==
    CASE n = "ds_list_free" -> ListOrder
      [] n = "ds_stack_free" -> StackOrder
      [] n = "ds_queue_free" -> QueueOrder
      [] n = "ds_tree_free" -> TreeOrder

\* C23: free with a destructor calls it exactly once for each node held at
\* teardown, hence never for a payload detached earlier; free with a null
\* destructor calls none; both release every node and the container and
\* return DS_OK.
C23_FreeDestructor ==
    [][(op'.name \in FreeOps /\ op'.h # NULL)
       => (/\ ret' = DS_OK
           /\ allocated' = {}
           /\ ~list'.live /\ ~stack'.live /\ ~queue'.live /\ ~tree'.live
           /\ IF op'.path = "destructor"
              THEN /\ Len(destructed') = Len(Held(op'.name))
                   /\ \A x \in SeqSet(Held(op'.name)) \cup SeqSet(destructed') :
                         Count(destructed', x) = Count(Held(op'.name), x)
              ELSE destructed' = <<>>)]_vars

C23_Witness ==
    /\ op.name = "ds_tree_free" /\ op.h # NULL /\ op.path = "destructor"
    /\ ret = DS_OK /\ Len(destructed) = 3 /\ Cardinality(present) = 3
    /\ cnt["tree"].d = 1

\* The function that frees the container of kind k.
FreeOf(k) ==
    CASE k = "list" -> "ds_list_free"
      [] k = "stack" -> "ds_stack_free"
      [] k = "queue" -> "ds_queue_free"
      [] k = "tree" -> "ds_tree_free"

\* C24: a container goes from live to destroyed only in its free call with a
\* non-null handle; no other call, successful or failed, releases it, and
\* free with a null handle destroys nothing.
C24_DestroyedOnlyByFree ==
    [][/\ \A k \in Kinds :
             (IsLive(k) /\ ~IsLive(k)') => (op'.name = FreeOf(k) /\ op'.h # NULL)
       /\ (op'.name \in FreeOps /\ op'.h = NULL)
             => (/\ \A k \in Kinds : IsLive(k)' = IsLive(k)
                 /\ UNCHANGED <<list, stack, queue, tree, mem, allocated>>)]_vars

C24_Witness ==
    /\ op.name = "ds_queue_free" /\ op.h # NULL /\ ret = DS_OK
    /\ ~queue.live /\ cnt["queue"].n = 2 /\ err

\* The ints written by the node lines of a visualize output, in order.
Emitted(out) == [i \in 1..Len(out.lines) |-> out.lines[i].text]

\* C25: ds_tree_visualize visits the nodes left subtree, node, right subtree,
\* so the payloads are written in ascending key order.
C25_VisualizeInOrder ==
    [][(op'.name = "ds_tree_visualize" /\ op'.h # NULL)
       => (/\ Emitted(ret') = Values(TreeOrder)
           /\ \A i, j \in 1..Len(ret'.lines) :
                 i < j => ret'.lines[i].text < ret'.lines[j].text)]_vars

\* C25 as amended: ds_tree_visualize visits the nodes right subtree, node,
\* left subtree, so the payloads are written in descending key order.
C25_VisualizeReverseInOrder ==
    [][(op'.name = "ds_tree_visualize" /\ op'.h # NULL)
       => (/\ Emitted(ret') = Reverse(Values(TreeOrder))
           /\ \A i, j \in 1..Len(ret'.lines) :
                 i < j => ret'.lines[i].text > ret'.lines[j].text
           /\ UNCHANGED <<tree, mem, allocated>>)]_vars

C25_Witness ==
    /\ op.name = "ds_tree_visualize" /\ op.h # NULL
    /\ Len(ret.lines) = 4 /\ ret.size = 4
    /\ ret.lines[1].text = 70 /\ ret.lines[4].text = 20

\* C26: ds_stack_peek and ds_queue_peek leave the container unchanged; on a
\* non-empty container they return the payload the pop or dequeue called
\* next returns, on an empty one nothing.
C26_PeekIsNextPop ==
    [][/\ op'.name = "ds_stack_peek"
          => /\ UNCHANGED <<list, stack, queue, tree, mem, allocated>>
             /\ op'.h # NULL
                  => /\ ret' = ds_stack_pop(HANDLE).ret
                     /\ stack.size = 0 <=> ret' = NULL
                     /\ stack.size > 0 => ret' = StackOrder[1]
       /\ op'.name = "ds_queue_peek"
          => /\ UNCHANGED <<list, stack, queue, tree, mem, allocated>>
             /\ op'.h # NULL
                  => /\ ret' = ds_queue_dequeue(HANDLE).ret
                     /\ queue.size = 0 <=> ret' = NULL
                     /\ queue.size > 0 => ret' = QueueOrder[1]]_vars

C26_Witness ==
    /\ op.name = "ds_stack_peek" /\ op.h # NULL /\ ret # NULL
    /\ stack.size = 3 /\ ret = StackOrder[1] /\ StackOrder[1] # StackOrder[2]

TreeNodes == SeqSet(InOrderNodes(mem, tree.root))

\* The node that follows node n in the in-order sequence of the tree.
InOrderNext(n) ==
    LET seq == InOrderNodes(mem, tree.root)
        i == CHOOSE j \in 1..Len(seq) : seq[j] = n
    IN seq[i + 1]

\* Every left or right link that referred to node old refers to new after
\* the step, and every other link of the nodes in S is as before.
Relinked(S, old, new) ==
    \A x \in S : \A f \in {"left", "right"} :
        mem'[x][f] = IF mem[x][f] = old THEN new ELSE mem[x][f]

\* C27: after ds_tree_remove of a node with two children the payloads held
\* are those held before minus the removed node's payload; the successor's
\* payload is held by exactly the node that held the removed key; the
\* successor's node is unlinked, its right child taking its place; no other
\* node's payload changes.
C27_TwoChildrenPayloads ==
    [][(/\ ValidCall(op', "ds_tree_remove")
        /\ \E n \in NodesEqual(op'.data) :
              mem[n].left # NULL /\ mem[n].right # NULL)
       => LET n == CHOOSE x \in NodesEqual(op'.data) : TRUE
              s == InOrderNext(n)
          IN /\ SeqSet(TreeOrder') = SeqSet(TreeOrder) \ {mem[n].data}
             /\ mem'[n].data = mem[s].data
             /\ {x \in TreeNodes' : mem'[x].data = mem[s].data} = {n}
             /\ TreeNodes' = TreeNodes \ {s}
             /\ allocated' = allocated \ {s}
             /\ \A x \in TreeNodes \ {n, s} : mem'[x].data = mem[x].data
             /\ Relinked(TreeNodes \ {s}, s, mem[s].right)
             /\ tree'.root = tree.root]_vars

C27_Witness ==
    /\ op.name = "ds_tree_remove" /\ op.path = "two_deep" /\ ret = DS_OK
    /\ tree.size = 4 /\ Deref[op.data] = 30
    /\ Values(Payloads(mem, <<tree.root>>)) = <<40>>
    /\ allocated = {1, 2, 3, 5} /\ mem[mem[tree.root].right].left = 5

\* C28: ds_tree_remove of a leaf clears the slot that pointed to it, and of a
\* node with one child puts the child into that slot (a parent's left or
\* right, or the root); every other node keeps payload and children, the
\* tree stays ordered and size decreases by 1.
C28_LeafAndOneChild ==
    [][(/\ ValidCall(op', "ds_tree_remove")
        /\ \E n \in NodesEqual(op'.data) :
              mem[n].left = NULL \/ mem[n].right = NULL)
       => LET n == CHOOSE x \in NodesEqual(op'.data) : TRUE
              child == IF mem[n].left # NULL THEN mem[n].left ELSE mem[n].right
          IN /\ ret' = DS_OK
             /\ tree'.root = IF tree.root = n THEN child ELSE tree.root
             /\ Relinked(TreeNodes \ {n}, n, child)
             /\ \A x \in TreeNodes \ {n} : mem'[x].data = mem[x].data
             /\ TreeNodes' = TreeNodes \ {n}
             /\ allocated' = allocated \ {n}
             /\ BSTOrdered'
             /\ tree'.size = tree.size - 1]_vars

C28_Witness ==
    /\ op.name = "ds_tree_remove" /\ op.path = "one" /\ ret = DS_OK
    /\ tree.size = 3 /\ count_nodes(mem, tree.root) = 3
    /\ cmp_int(op.data, mem[tree.root].data) > 0

\* The reference sequence q after the list call recorded in o.
RefStep(q, o) ==
    IF o.name = "ds_list_push_front" /\ o.h # NULL /\ o.data # NULL /\ ~o.afail
    THEN <<o.data>> \o q
    ELSE IF o.name = "ds_list_push_back" /\ o.h # NULL /\ o.data # NULL /\ ~o.afail
    THEN Append(q, o.data)
    ELSE IF o.name = "ds_list_pop_front" /\ o.h # NULL /\ q # <<>>
    THEN Tail(q)
    ELSE IF ValidCall(o, "ds_list_remove") /\ FirstMatch(q, o.data) # 0
    THEN Without(q, FirstMatch(q, o.data))
    ELSE q

\* C29: in any interleaving of push_front, push_back, pop_front and remove
\* the head-to-tail payload order follows a reference sequence on which
\* push_front prepends, push_back appends, pop_front drops the first element
\* and remove drops the first matching one.
C29_ListRefinesSequence ==
    [][(list.live /\ list'.live) => ListOrder' = RefStep(ListOrder, op')]_vars

C29_Witness ==
    /\ op.name = "ds_list_push_front" /\ ret = DS_OK /\ fifo.phase = "off"
    /\ list.size = 3 /\ ListOrder[1] = op.data /\ lscript = -1
    /\ ListOrder[2] = ListOrder[3]

\* The last element of a non-empty sequence.
Last(q) == q[Len(q)]

\* C30: in a non-empty list or queue tail/rear is the last node reachable
\* from head/front and its next link is empty, also after ds_list_remove
\* removed the tail node, so that a following push_back loses no element.
C30_TailIsLastNode ==
    /\ (list.live /\ list.head # NULL)
          => /\ list.tail = Last(Chain(mem, list.head))
             /\ mem[list.tail].next = NULL
    /\ (queue.live /\ queue.front # NULL)
          => /\ queue.rear = Last(Chain(mem, queue.front))
             /\ mem[queue.rear].next = NULL

C30_Witness ==
    /\ op.name = "ds_list_remove" /\ op.path = "tail" /\ ret = DS_OK
    /\ list.size = 2 /\ list.tail = Last(Chain(mem, list.head))
    /\ list.tail # list.head

\* The calls that unlink one node and hand its payload back, and the calls
\* that unlink the node holding a given key.
PopOps == {"ds_list_pop_front", "ds_stack_pop", "ds_queue_dequeue"}
RemoveOps == {"ds_list_remove", "ds_tree_remove"}

\* C31: between calls the nodes obtained from ds_alloc and not yet released
\* are exactly the nodes reachable from the live containers.  Every pop,
\* dequeue and successful remove releases exactly one node, which is no
\* longer linked afterwards, and a ds_tree_insert of a stored key releases
\* the node it allocated.
C31_AllocatedIsReachable ==
    /\ [](allocated = Reachable)
    /\ [][/\ (op'.name \in PopOps /\ ret' # NULL)
                => \E n \in Roots :
                      /\ allocated' = allocated \ {n}
                      /\ n \notin Reachable'
                      /\ ret' = mem[n].data
          /\ (op'.name \in RemoveOps /\ ret' = DS_OK)
                => \E n \in allocated :
                      /\ allocated' = allocated \ {n}
                      /\ n \notin Reachable'
          /\ (ValidCall(op', "ds_tree_insert") /\ NodesEqual(op'.data) # {})
                => /\ allocated' = allocated
                   /\ Reachable' = Reachable]_vars

C31_Witness ==
    /\ op.name = "ds_tree_insert" /\ op.path = "dup" /\ ret = DS_OK
    /\ op.afail = FALSE
    /\ tree.size = 3 /\ allocated = Reachable /\ Cardinality(allocated) = 3

PeekOps == {"ds_stack_peek", "ds_queue_peek"}

\* C32: no node of any container holds a null payload reference.  On a live
\* container a NULL result of pop, dequeue or peek therefore occurs only when
\* the container is empty, and a NULL result of find only when no stored
\* element compares equal to the key.
C32_NoNullPayload ==
    /\ [](\A n \in Reachable : mem[n].data # NULL)
    /\ [][/\ (op'.name \in PopOps \cup PeekOps /\ op'.h # NULL /\ ret' = NULL)
                => LiveEmpty(op'.name)
          /\ (ValidCall(op', "ds_list_find") /\ ret' = NULL)
                => (list.live /\ FirstMatch(ListOrder, op'.data) = 0)
          /\ (ValidCall(op', "ds_tree_find") /\ ret' = NULL)
                => (tree.live /\ NodesEqual(op'.data) = {})]_vars

C32_Witness ==
    /\ ValidCall(op, "ds_list_find") /\ ret = NULL
    /\ list.live /\ list.size = 3
    /\ FirstMatch(ListOrder, op.data) = 0
    /\ \A n \in Reachable : mem[n].data # NULL

\* C33: when ds_tree_insert is called with a payload that compares equal to
\* a stored payload but is a different reference, the node keeps the stored
\* reference, and ds_tree_find for that key in the resulting tree returns the
\* stored reference, not the offered one.
C33_DuplicateKeepsOriginal ==
    [][\A k \in TreePtrs : \A n \in NodesEqual(k) :
          (ValidCall(op', "ds_tree_insert") /\ op'.data = k /\ mem[n].data # k)
             => /\ mem'[n].data = mem[n].data
                /\ n \in NodesEqual(k)'
                /\ (ds_tree_find(HANDLE, k, CMP_INT).ret)' = mem[n].data
                /\ (ds_tree_find(HANDLE, k, CMP_INT).ret)' # k]_vars

C33_Witness ==
    /\ op.name = "ds_tree_insert" /\ op.path = "dup" /\ ret = DS_OK
    /\ op.data = 7 /\ tree.size = 3
    /\ ds_tree_find(HANDLE, 7, CMP_INT).ret = 2

\* C34: a queue driven by enqueue/dequeue/size and a list driven by
\* push_back/pop_front/size with the same arguments and the same allocation
\* outcomes return the same status codes, the same payloads and the same
\* sizes at every step.
C34_QueueListEquivalent ==
    [][/\ (op.name = "ds_queue_enqueue" /\ op'.name = "ds_list_push_back")
             => /\ ret' = ret
                /\ ds_list_size(HANDLE)' = ds_queue_size(HANDLE)'
       /\ (op.name = "ds_queue_dequeue" /\ op'.name = "ds_list_pop_front")
             => /\ ret' = ret
                /\ ds_list_size(HANDLE)' = ds_queue_size(HANDLE)'
       /\ (op.name = "ds_queue_size" /\ op'.name = "ds_list_size")
             => ret' = ret]_vars

C34_Witness ==
    /\ op.name = "ds_list_pop_front" /\ op.h # NULL /\ ret = 4
    /\ list.size = 1 /\ queue.size = 1
    /\ ListOrder = <<6>> /\ QueueOrder = <<6>>

RECURSIVE NextWalkEnds(_, _, _)
\* Following next links from node n in heap m reaches NULL within k steps.
NextWalkEnds(m, n, k) ==
    IF n = NULL THEN TRUE
    ELSE IF k = 0 THEN FALSE
    ELSE NextWalkEnds(m, m[n].next, k - 1)

RECURSIVE TreeWalksEnd(_, _, _)
\* Every walk along left and right links from node n in heap m reaches NULL
\* within k steps.
TreeWalksEnd(m, n, k) ==
    IF n = NULL THEN TRUE
    ELSE IF k = 0 THEN FALSE
    ELSE /\ TreeWalksEnd(m, m[n].left, k - 1)
         /\ TreeWalksEnd(m, m[n].right, k - 1)

\* C35: in every reachable state the loops of the operations end: a walk
\* along next links from head, top or front (the scans of ds_list_remove and
\* ds_list_find, the teardown of the free functions) and every walk along
\* left and right links from root (the descents of ds_tree_insert,
\* ds_tree_find and ds_tree_remove, the successor walk, free_subtree) reaches
\* an empty link after at most as many steps as the container has nodes.
C35_WalksTerminate ==
    /\ list.live => NextWalkEnds(mem, list.head, list.size)
    /\ stack.live => NextWalkEnds(mem, stack.top, stack.size)
    /\ queue.live => NextWalkEnds(mem, queue.front, queue.size)
    /\ tree.live => TreeWalksEnd(mem, tree.root, tree.size)
    /\ list.size + stack.size + queue.size + tree.size <= Cardinality(allocated)

C35_Witness ==
    /\ op.name = "ds_tree_remove" /\ op.path = "two_deep" /\ ret = DS_OK
    /\ tree.size = 3 /\ mem[tree.root].left # NULL /\ mem[tree.root].right # NULL
    /\ TreeWalksEnd(mem, tree.root, 2) /\ ~TreeWalksEnd(mem, tree.root, 1)

\* The container of kind k, the node it refers to, and the functions that
\* work on it.
Cont(k) ==
    CASE k = "list" -> list [] k = "stack" -> stack
      [] k = "queue" -> queue [] k = "tree" -> tree
RootOf(k) ==
    CASE k = "list" -> list.head [] k = "stack" -> stack.top
      [] k = "queue" -> queue.front [] k = "tree" -> tree.root
OpsOf(k) ==
    CASE k = "list" -> {"ds_list_create", "ds_list_free", "ds_list_push_front",
                        "ds_list_push_back", "ds_list_pop_front",
                        "ds_list_remove", "ds_list_find", "ds_list_size"}
      [] k = "stack" -> {"ds_stack_create", "ds_stack_free", "ds_stack_push",
                         "ds_stack_pop", "ds_stack_peek", "ds_stack_is_empty",
                         "ds_stack_size"}
      [] k = "queue" -> {"ds_queue_create", "ds_queue_free", "ds_queue_enqueue",
                         "ds_queue_dequeue", "ds_queue_peek", "ds_queue_is_empty",
                         "ds_queue_size"}
      [] k = "tree" -> {"ds_tree_create", "ds_tree_free", "ds_tree_insert",
                        "ds_tree_remove", "ds_tree_find", "ds_tree_size",
                        "ds_tree_is_empty", "ds_tree_visualize"}

\* The nodes of the container of kind k.
NodesOf(k) == ReachFrom(mem, {RootOf(k)} \ {NULL}, MaxNodes)

====
